---------------------------- MODULE Spec2Model ----------------------------
(***************************************************************************)
(* A model of the OSM import pipeline (scripts/import_osm_and_census_data  *)
(* .py) and of the two graph builders (scripts/build_graph.py,             *)
(* scripts/build_graph_arango.py) that read scripts/config.py.             *)
(*                                                                         *)
(* Text is a sequence of one-character strings, so that replace, strip,    *)
(* split and float() are computed on characters.  A Python float is an     *)
(* exact rational [n, d] (d > 0, lowest terms) or one of the IEEE specials.*)
(* Coordinates are integers in thousandths of a degree.                    *)
(***************************************************************************)
EXTENDS Integers, Sequences, FiniteSets, Bags, TLC

VARIABLES
    node_coords,          \* OSMHandler.node_coords: osm_id -> <<lat, lon>>
    ways,                 \* OSMHandler.ways
    tourist_attractions,  \* OSMHandler.tourist_attractions
    road_node_ids,        \* OSMHandler.road_node_ids
    node_count,           \* OSMHandler._node_count
    stream,               \* the file: all its entities, and those not yet handed over
    pc,                   \* the statement the run is at
    db0,                  \* the tables as committed when the run began
    db,                   \* the tables as committed in PostgreSQL
    tx,                   \* the tables as seen by the connection's open transaction
    buffer,               \* create_road_segments' buffer: the rows written so far
    raised,               \* the exception that ended the run ("none": none)
    out,                  \* the progress lines printed so far
    age_pc,               \* the statement build_graph.py's run is at
    age_k,                \* the statements its current loop has executed
    age,                  \* the graph alabama_routing in Apache AGE
    age_out,              \* the lines build_graph.py has printed
    arango_pc,            \* the statement build_graph_arango.py's run is at
    arango,               \* the four collections in ArangoDB
    arango_out,           \* the lines build_graph_arango.py has printed
    verify,               \* verify_graphs.py's run: its statement, statistics and verdict
    compare,              \* benchmark_queries.py's comparison of two query results
    download              \* osm_download.py's run: its statement, retry_count and exit status

handlerVars == <<node_coords, ways, tourist_attractions, road_node_ids, node_count, stream>>
runVars == <<pc, raised, out>>
dbVars == <<db0, db, tx>>
importVars == <<handlerVars, runVars, dbVars, buffer>>
ageVars == <<age_pc, age_k, age, age_out>>
arangoVars == <<arango_pc, arango, arango_out>>
graphVars == <<ageVars, arangoVars>>
vars == <<node_coords, ways, tourist_attractions, road_node_ids, node_count, stream,
          pc, db0, db, tx, buffer, raised, out,
          age_pc, age_k, age, age_out, arango_pc, arango, arango_out,
          verify, compare, download>>
toolVars == <<verify, compare, download>>

\* a program that has not been started
NotStarted == [pc |-> "idle"]
ToolsIdle == verify = NotStarted /\ compare = NotStarted /\ download = NotStarted

---------------------------------------------------------------------------
(* Bounds of the model. *)

MaxNodeId == 2        \* node identifiers are 1..MaxNodeId
MaxWayLen == 3        \* a way references at most MaxWayLen nodes
MaxFollowWays == 1    \* ways that follow the first way of a checked way list

NodeIds == 1..MaxNodeId

---------------------------------------------------------------------------
(* Arithmetic on rationals, standing for Python's float arithmetic. *)

Abs(x) == IF x < 0 THEN -x ELSE x

RECURSIVE GCD(_, _)
GCD(a, b) == IF b = 0 THEN a ELSE GCD(b, a % b)

Rat(n, d) ==
    LET g == GCD(Abs(n), Abs(d))
        s == IF d < 0 THEN -1 ELSE 1
    IN  [n |-> s * (n \div g), d |-> s * (d \div g)]

IntToRat(i) == [n |-> i, d |-> 1]

\* a / b, for b # 0 (the caller raises ZeroDivisionError otherwise)
RatDiv(a, b) == Rat(a.n * b.d, a.d * b.n)

RatMul(a, b) == Rat(a.n * b.n, a.d * b.d)

RatLess(a, b) == a.n * b.d < b.n * a.d

---------------------------------------------------------------------------
(* Text: str.replace, str.strip, str.split, float(), int(). *)

Whitespace == {" ", "\t", "\n"}
Digits == {"0", "1", "2", "3", "4", "5", "6", "7", "8", "9"}
DigitVal(c) ==
    CASE c = "0" -> 0 [] c = "1" -> 1 [] c = "2" -> 2 [] c = "3" -> 3
      [] c = "4" -> 4 [] c = "5" -> 5 [] c = "6" -> 6 [] c = "7" -> 7
      [] c = "8" -> 8 [] c = "9" -> 9

StartsWith(s, pat) ==
    /\ Len(pat) <= Len(s)
    /\ SubSeq(s, 1, Len(pat)) = pat

\* s.replace(pat, rep): the occurrences of pat, left to right, not overlapping
RECURSIVE Replace(_, _, _)
Replace(s, pat, rep) ==
    IF s = <<>> THEN <<>>
    ELSE IF StartsWith(s, pat)
         THEN rep \o Replace(SubSeq(s, Len(pat) + 1, Len(s)), pat, rep)
         ELSE <<Head(s)>> \o Replace(Tail(s), pat, rep)

RECURSIVE LStrip(_)
LStrip(s) ==
    IF s # <<>> /\ Head(s) \in Whitespace THEN LStrip(Tail(s)) ELSE s

RECURSIVE RStrip(_)
RStrip(s) ==
    IF s # <<>> /\ s[Len(s)] \in Whitespace
    THEN RStrip(SubSeq(s, 1, Len(s) - 1)) ELSE s

Strip(s) == LStrip(RStrip(s))

\* the first run of non-whitespace characters of s
RECURSIVE TakeToken(_)
TakeToken(s) ==
    IF s = <<>> \/ Head(s) \in Whitespace THEN <<>>
    ELSE <<Head(s)>> \o TakeToken(Tail(s))

\* s.split(): the runs of non-whitespace characters of s
RECURSIVE Split(_)
Split(s) ==
    LET t == LStrip(s)
        tok == TakeToken(t)
    IN  IF t = <<>> THEN <<>>
        ELSE <<tok>> \o Split(SubSeq(t, Len(tok) + 1, Len(t)))

RECURSIVE DecVal(_)
DecVal(ds) ==
    IF ds = <<>> THEN 0 ELSE DecVal(SubSeq(ds, 1, Len(ds) - 1)) * 10 + DigitVal(ds[Len(ds)])

RECURSIVE Pow10(_)
Pow10(k) == IF k = 0 THEN 1 ELSE 10 * Pow10(k - 1)

RECURSIVE IndexOf(_, _)
IndexOf(s, c) ==
    IF s = <<>> THEN 0
    ELSE IF Head(s) = c THEN 1
    ELSE LET i == IndexOf(Tail(s), c) IN IF i = 0 THEN 0 ELSE i + 1

AllDigits(s) == \A i \in 1..Len(s) : s[i] \in Digits

\* float(tok), for a token of the characters 0-9 + - . and lower-case letters
\* other than e: [kind |-> "finite", val |-> a rational], [kind |-> "inf"],
\* [kind |-> "nan"], or [kind |-> "ValueError"] when float() raises.
ParseFloat(tok) ==
    LET signed == tok # <<>> /\ Head(tok) \in {"+", "-"}
        neg == tok # <<>> /\ Head(tok) = "-"
        body == IF signed THEN Tail(tok) ELSE tok
        dot == IndexOf(body, ".")
        ip == IF dot = 0 THEN body ELSE SubSeq(body, 1, dot - 1)
        fp == IF dot = 0 THEN <<>> ELSE SubSeq(body, dot + 1, Len(body))
        mag == Rat(DecVal(ip \o fp), Pow10(Len(fp)))
    IN  IF body \in {<<"i", "n", "f">>, <<"i", "n", "f", "i", "n", "i", "t", "y">>}
        THEN [kind |-> "inf", neg |-> neg]
        ELSE IF body = <<"n", "a", "n">> THEN [kind |-> "nan", neg |-> neg]
        ELSE IF AllDigits(ip) /\ AllDigits(fp) /\ Len(ip) + Len(fp) >= 1
             THEN [kind |-> "finite", neg |-> neg,
                   val |-> IF neg THEN Rat(-mag.n, mag.d) ELSE mag]
        ELSE [kind |-> "ValueError"]

\* int(f) of a finite float: truncation towards zero
Trunc(q) == IF q.n < 0 THEN -((-q.n) \div q.d) ELSE q.n \div q.d

---------------------------------------------------------------------------
(* Program constants. *)

HIGHWAY_TYPES ==
    {"motorway", "motorway_link", "trunk", "trunk_link",
     "primary", "primary_link", "secondary", "secondary_link"}

DEFAULT_SPEEDS(highway) ==
    CASE highway = "motorway" -> 70
      [] highway = "motorway_link" -> 50
      [] highway = "trunk" -> 65
      [] highway = "trunk_link" -> 45
      [] highway = "primary" -> 55
      [] highway = "primary_link" -> 35
      [] highway = "secondary" -> 45
      [] highway = "secondary_link" -> 30
      [] OTHER -> 45

TOURISM_TYPES ==
    {"museum", "attraction", "viewpoint", "artwork",
     "gallery", "theme_park", "zoo", "aquarium",
     "hotel", "motel", "hostel", "guest_house",
     "camp_site", "caravan_site", "picnic_site",
     "information", "yes"}

---------------------------------------------------------------------------
(* Geometry. *)

\* The locations of the model, <<lat, lon>> in thousandths of a degree.
Locations == << <<34730, -86586>>, <<34606, -86983>>, <<33520, -86802>> >>

\* haversine_distance on the locations of the model, in miles to three
\* decimals: the value the code computes (radius 3958.8), rounded.
haversine_distance(lat1, lon1, lat2, lon2) ==
    LET a == <<lat1, lon1>>
        b == <<lat2, lon2>>
        pair == {a, b}
    IN  IF a = b THEN Rat(0, 1)
        ELSE IF pair = {Locations[1], Locations[2]} THEN Rat(24132, 1000)
        ELSE IF pair = {Locations[1], Locations[3]} THEN Rat(84512, 1000)
        ELSE Rat(75748, 1000)


---------------------------------------------------------------------------
(* escape_tsv and the segment synthesis of create_road_segments. *)

\* Python's None where a text is expected: no text equals it
None == <<"None">>
\* Python's None where a tag value is expected: no tag value equals it
NoTag == "<None>"

\* escape_tsv without the doubling of the backslashes
escape_tsv_NoDoubling(v) ==
    IF v = None THEN <<"\\", "N">>
    ELSE Replace(Replace(v, <<"\t">>, <<" ">>), <<"\n">>, <<" ">>)

\* escape_tsv(v) for a text value or None
escape_tsv(v) ==
    IF v = None THEN <<"\\", "N">>
    ELSE Replace(Replace(Replace(v, <<"\\">>, <<"\\", "\\">>),
                         <<"\t">>, <<" ">>), <<"\n">>, <<" ">>)

\* Lines 189-195: the speed of a way.  raised is the exception that leaves
\* the try block uncaught (only ValueError and IndexError are caught).
ResolveSpeed(highway, maxspeed_str) ==
    LET default == DEFAULT_SPEEDS(highway)
        toks == Split(Strip(Replace(maxspeed_str, <<"m", "p", "h">>, <<>>)))
        f == ParseFloat(toks[1])
    IN  IF maxspeed_str = <<>> THEN [raised |-> "none", speed |-> default]
        ELSE IF toks = <<>> THEN [raised |-> "none", speed |-> default]    \* IndexError
        ELSE IF f.kind = "ValueError" THEN [raised |-> "none", speed |-> default]
        ELSE IF f.kind = "nan" THEN [raised |-> "none", speed |-> default] \* int(nan): ValueError
        ELSE IF f.kind = "inf" THEN [raised |-> "OverflowError", speed |-> default]
        ELSE [raised |-> "none", speed |-> Trunc(f.val)]

\* SegmentRow with the category's default speed written in place of the
\* speed the travel time was computed from
SegmentRow_DefaultSpeed(w, start_id, end_id, speed, coords) ==
    LET length_miles == haversine_distance(coords[start_id][1], coords[start_id][2],
                                           coords[end_id][1], coords[end_id][2])
        travel_time_s == RatMul(RatDiv(length_miles, IntToRat(speed)), IntToRat(3600))
    IN  [way_id |-> w.id, start_node |-> start_id, end_node |-> end_id,
         name |-> escape_tsv(w.name), highway_type |-> w.highway,
         length_miles |-> length_miles, speed_mph |-> DEFAULT_SPEEDS(w.highway),
         travel_time_s |-> travel_time_s, oneway |-> w.oneway]

\* Lines 203-212: the row written for the pair (start_id, end_id) of way w
SegmentRow(w, start_id, end_id, speed, coords) ==
    LET length_miles == haversine_distance(coords[start_id][1], coords[start_id][2],
                                           coords[end_id][1], coords[end_id][2])
        travel_time_s == RatMul(RatDiv(length_miles, IntToRat(speed)), IntToRat(3600))
    IN  [way_id |-> w.id, start_node |-> start_id, end_node |-> end_id,
         name |-> escape_tsv(w.name), highway_type |-> w.highway,
         length_miles |-> length_miles, speed_mph |-> speed,
         travel_time_s |-> travel_time_s, oneway |-> w.oneway]

\* Line 202: the pair is written only when both ends have coordinates
PairHasCoords(start_id, end_id, coords) ==
    start_id \in DOMAIN coords /\ end_id \in DOMAIN coords

\* Lines 198-213: the pairs i, i+1, ... of way w, written after rows
RECURSIVE WaySegments(_, _, _, _, _)
WaySegments(w, speed, coords, i, rows) ==
    IF i > Len(w.node_ids) - 1 THEN [raised |-> "none", rows |-> rows]
    ELSE LET start_id == w.node_ids[i]
             end_id == w.node_ids[i + 1]
         IN  IF PairHasCoords(start_id, end_id, coords)
             THEN IF speed = 0
                  THEN [raised |-> "ZeroDivisionError", rows |-> rows]
                  ELSE WaySegments(w, speed, coords, i + 1,
                                   Append(rows, SegmentRow(w, start_id, end_id, speed, coords)))
             ELSE WaySegments(w, speed, coords, i + 1, rows)

\* Lines 187-213: the loop over handler.ways from way k on
RECURSIVE SegmentsLoop(_, _, _, _)
SegmentsLoop(ws, coords, k, rows) ==
    IF k > Len(ws) THEN [raised |-> "none", rows |-> rows]
    ELSE LET w == ws[k]
             sp == ResolveSpeed(w.highway, w.maxspeed)
             r == WaySegments(w, sp.speed, coords, 1, rows)
         IN  IF sp.raised # "none" THEN [raised |-> sp.raised, rows |-> rows]
             ELSE IF r.raised # "none" THEN r
             ELSE SegmentsLoop(ws, coords, k + 1, r.rows)

\* create_road_segments up to its copy_from: the buffer, and what was raised
SegmentBuffer(ws, coords) == SegmentsLoop(ws, coords, 1, <<>>)

RECURSIVE BagOfSeq(_)
BagOfSeq(s) == IF s = <<>> THEN EmptyBag ELSE SetToBag({Head(s)}) (+) BagOfSeq(Tail(s))


---------------------------------------------------------------------------
(* OSMHandler: the extraction pass. *)

\* tags.get(key, default)
TagGet(tags, key, default) == IF key \in DOMAIN tags THEN tags[key] ELSE default

\* str(tourism) for a recognized tourism type
TourismText(t) ==
    CASE t = "museum" -> <<"m", "u", "s", "e", "u", "m">>
      [] t = "attraction" -> <<"a", "t", "t", "r", "a", "c", "t", "i", "o", "n">>
      [] t = "viewpoint" -> <<"v", "i", "e", "w", "p", "o", "i", "n", "t">>
      [] t = "artwork" -> <<"a", "r", "t", "w", "o", "r", "k">>
      [] t = "gallery" -> <<"g", "a", "l", "l", "e", "r", "y">>
      [] t = "theme_park" -> <<"t", "h", "e", "m", "e", "_", "p", "a", "r", "k">>
      [] t = "zoo" -> <<"z", "o", "o">>
      [] t = "aquarium" -> <<"a", "q", "u", "a", "r", "i", "u", "m">>
      [] t = "hotel" -> <<"h", "o", "t", "e", "l">>
      [] t = "motel" -> <<"m", "o", "t", "e", "l">>
      [] t = "hostel" -> <<"h", "o", "s", "t", "e", "l">>
      [] t = "guest_house" -> <<"g", "u", "e", "s", "t", "_", "h", "o", "u", "s", "e">>
      [] t = "camp_site" -> <<"c", "a", "m", "p", "_", "s", "i", "t", "e">>
      [] t = "caravan_site" -> <<"c", "a", "r", "a", "v", "a", "n", "_", "s", "i", "t", "e">>
      [] t = "picnic_site" -> <<"p", "i", "c", "n", "i", "c", "_", "s", "i", "t", "e">>
      [] t = "information" -> <<"i", "n", "f", "o", "r", "m", "a", "t", "i", "o", "n">>
      [] t = "yes" -> <<"y", "e", "s">>

\* f'Unnamed {tourism}'
UnnamedName(tourism) == <<"U", "n", "n", "a", "m", "e", "d", " ">> \o TourismText(tourism)

\* the file of a run whose entities are drawn as they are read
NoStream == [all |-> {}, pending |-> {}]

\* OSMHandler.__init__
HandlerInit ==
    /\ node_coords = <<>>
    /\ ways = <<>>
    /\ tourist_attractions = <<>>
    /\ road_node_ids = {}
    /\ node_count = 0

\* OSMHandler.node that stores the coordinates of a node only when a way
\* read before has referenced it
HandlerNode_KnownRoadNodesOnly(n) ==
    LET tourism == TagGet(n.tags, "tourism", NoTag)
    IN  /\ node_count' = node_count + 1
        /\ tourist_attractions' =
             IF tourism \in TOURISM_TYPES
             THEN Append(tourist_attractions,
                         [osm_id |-> n.id,
                          name |-> TagGet(n.tags, "name", UnnamedName(tourism)),
                          tourism_type |-> tourism, lat |-> n.lat, lon |-> n.lon])
             ELSE tourist_attractions
        /\ node_coords' = IF n.id \in road_node_ids
                          THEN (n.id :> <<n.lat, n.lon>>) @@ node_coords
                          ELSE node_coords
        /\ UNCHANGED <<ways, road_node_ids>>

\* OSMHandler.node(n), n = [id, lat, lon, tags]
HandlerNode(n) ==
    LET tourism == TagGet(n.tags, "tourism", NoTag)
    IN  /\ node_count' = node_count + 1
        /\ tourist_attractions' =
             IF tourism \in TOURISM_TYPES
             THEN Append(tourist_attractions,
                         [osm_id |-> n.id,
                          name |-> TagGet(n.tags, "name", UnnamedName(tourism)),
                          tourism_type |-> tourism, lat |-> n.lat, lon |-> n.lon])
             ELSE tourist_attractions
        /\ node_coords' = (n.id :> <<n.lat, n.lon>>) @@ node_coords
        /\ UNCHANGED <<ways, road_node_ids>>

\* the way record OSMHandler.way keeps for w = [id, nodes, tags]
WayRecord(w) ==
    [id |-> w.id,
     node_ids |-> w.nodes,
     highway |-> TagGet(w.tags, "highway", NoTag),
     name |-> TagGet(w.tags, "name", <<>>),
     oneway |-> (TagGet(w.tags, "oneway", "no") = "yes"),
     maxspeed |-> TagGet(w.tags, "maxspeed", <<>>)]

Range(s) == {s[i] : i \in 1..Len(s)}

\* OSMHandler.way that keeps the reference list last to first
HandlerWay_NodesReversed(w) ==
    IF TagGet(w.tags, "highway", NoTag) \in HIGHWAY_TYPES
    THEN /\ road_node_ids' = road_node_ids \cup Range(w.nodes)
         /\ ways' = Append(ways, [WayRecord(w) EXCEPT
                                   !.node_ids = [i \in 1..Len(@) |-> @[Len(@) + 1 - i]]])
         /\ UNCHANGED <<node_coords, tourist_attractions, node_count>>
    ELSE UNCHANGED <<node_coords, ways, tourist_attractions, road_node_ids, node_count>>

\* OSMHandler.way(w)
HandlerWay(w) ==
    IF TagGet(w.tags, "highway", NoTag) \in HIGHWAY_TYPES
    THEN /\ road_node_ids' = road_node_ids \cup Range(w.nodes)
         /\ ways' = Append(ways, WayRecord(w))
         /\ UNCHANGED <<node_coords, tourist_attractions, node_count>>
    ELSE UNCHANGED <<node_coords, ways, tourist_attractions, road_node_ids, node_count>>

\* ReclaimedCoords without the filter
ReclaimedCoords_KeepAll(coords, needed_nodes) == coords

\* ReclaimedCoords with the filter inverted
ReclaimedCoords_Inverted(coords, needed_nodes) ==
    [k \in {k \in DOMAIN coords : k \notin needed_nodes} |-> coords[k]]

\* main, lines 296-298: the coordinates kept by the reclamation
ReclaimedCoords(coords, needed_nodes) ==
    [k \in {k \in DOMAIN coords : k \in needed_nodes} |-> coords[k]]


---------------------------------------------------------------------------
(* The store: PostgreSQL's COPY text format and the tables. *)

NULL == <<>>          \* a nullable column holds <<>> or <<value>>

\* a field read back as it was written, backslashes and all
CopyDecode_KeepsBackslash(s) == s

\* what COPY ... FROM reads back from an escaped text field: a backslash
\* and the character after it stand for one character
RECURSIVE CopyDecode(_)
CopyDecode(s) ==
    IF s = <<>> THEN <<>>
    ELSE IF Head(s) = "\\" /\ Len(s) >= 2
         THEN LET c == s[2]
                  d == CASE c = "t" -> "\t" [] c = "n" -> "\n" [] OTHER -> c
              IN  <<d>> \o CopyDecode(SubSeq(s, 3, Len(s)))
         ELSE <<Head(s)>> \o CopyDecode(Tail(s))

\* the text column stored for the text v written through escape_tsv
StoredText(v) == CopyDecode(escape_tsv(v))

RECURSIVE SetToSeq(_)
SetToSeq(S) ==
    IF S = {} THEN <<>>
    ELSE LET m == CHOOSE x \in S : \A y \in S : x <= y
         IN  <<m>> \o SetToSeq(S \ {m})

\* import_to_postgres, lines 141-145: the rows of osm_nodes
RoadNodeRows(node_ids, coords) ==
    LET ids == SetToSeq({i \in node_ids : i \in DOMAIN coords})
    IN  [k \in 1..Len(ids) |->
            [osm_id |-> ids[k], lat |-> coords[ids[k]][1], lon |-> coords[ids[k]][2],
             tags |-> "{}"]]

\* import_to_postgres, lines 153-156: the rows of osm_ways
WayRows(ws) == [k \in 1..Len(ws) |-> [osm_id |-> ws[k].id, nodes |-> ws[k].node_ids, tags |-> "{}"]]

\* copy_to_table on handler.tourist_attractions: the rows of tourist_attractions
AttractionRows(tas) ==
    [k \in 1..Len(tas) |->
        [osm_id |-> tas[k].osm_id, name |-> StoredText(tas[k].name),
         tourism_type |-> tas[k].tourism_type, lat |-> tas[k].lat, lon |-> tas[k].lon,
         nearest_city_id |-> NULL]]

\* the rows of road_segments read from create_road_segments' buffer
StoredSegments(rows) ==
    [k \in 1..Len(rows) |-> [rows[k] EXCEPT !.name = CopyDecode(@)]]

\* the cities table (filled before the import, never written by it)
Cities ==
    {[id |-> 1, name |-> <<"H", "u", "n", "t", "s", "v", "i", "l", "l", "e">>,
      lat |-> 34730, lon |-> -86586, population |-> 215000,
      county |-> <<"M", "a", "d", "i", "s", "o", "n">>],
     [id |-> 2, name |-> <<"B", "i", "r", "m", "i", "n", "g", "h", "a", "m">>,
      lat |-> 33520, lon |-> -86802, population |-> 210000,
      county |-> <<"J", "e", "f", "f", "e", "r", "s", "o", "n">>]}

\* the store before its first import
FreshDb ==
    [osm_nodes |-> <<>>, osm_ways |-> <<>>, tourist_attractions |-> <<>>,
     road_segments |-> <<>>, cities |-> Cities, tourist_attractions_count |-> <<>>]

\* the store after an earlier import of one way 90 between the nodes 8 and 9
PreviousDb ==
    [osm_nodes |-> <<[osm_id |-> 8, lat |-> 34730, lon |-> -86586, tags |-> "{}"],
                     [osm_id |-> 9, lat |-> 34606, lon |-> -86983, tags |-> "{}"]>>,
     osm_ways |-> <<[osm_id |-> 90, nodes |-> <<8, 9>>, tags |-> "{}"]>>,
     tourist_attractions |->
        <<[osm_id |-> 8, name |-> <<"Z", "o", "o">>, tourism_type |-> "zoo",
           lat |-> 34730, lon |-> -86586, nearest_city_id |-> <<1>>]>>,
     road_segments |->
        <<[way_id |-> 90, start_node |-> 8, end_node |-> 9, name |-> <<>>,
           highway_type |-> "motorway", length_miles |-> Rat(24132, 1000),
           speed_mph |-> 70, travel_time_s |-> Rat(24132 * 3600, 70 * 1000),
           oneway |-> FALSE]>>,
     cities |-> Cities,
     tourist_attractions_count |->
        (1 :> [count |-> 1, per_capita |-> Rat(10000, 215000)]
         @@ 2 :> [count |-> 0, per_capita |-> Rat(0, 1)])]

\* TRUNCATE TABLE road_segments, osm_ways, osm_nodes, tourist_attractions CASCADE
Truncated(t) ==
    [t EXCEPT !.road_segments = <<>>, !.osm_ways = <<>>, !.osm_nodes = <<>>,
              !.tourist_attractions = <<>>]


---------------------------------------------------------------------------
(* The entities a stream may hold. *)

MaxNodeEvents == 2    \* point entities read in one run
MaxWays == 2          \* ways kept in one run
MaxRefs == 3          \* node references of all kept ways of a stream together

EmptyTags == <<>>

\* one location for each node identifier
NodeLocation(i) == Locations[((i - 1) % Len(Locations)) + 1]

NodeInputs ==
    {[id |-> i, lat |-> NodeLocation(i)[1], lon |-> NodeLocation(i)[2], tags |-> t] :
        i \in NodeIds, t \in {EmptyTags, ("tourism" :> "museum")}}

RoadName == <<"U", "S", "\t", "3", "1">>

\* the ways of the streams the whole run is checked on
PipeWayInputs ==
    {[id |-> 101, nodes |-> <<1, 2>>,
      tags |-> ("highway" :> "motorway" @@ "name" :> RoadName)],
     [id |-> 102, nodes |-> <<2, 1, 2>>,
      tags |-> ("highway" :> "primary" @@ "oneway" :> "yes" @@ "maxspeed" :> <<"0">>)],
     [id |-> 103, nodes |-> <<1>>, tags |-> ("highway" :> "residential")]}

---------------------------------------------------------------------------
(* main of import_osm_and_census_data.py, statement by statement. *)


\* the progress lines a statement prints before it touches the store
LinesAt(at) ==
    CASE at = "truncate" -> <<"Clearing existing data...">>
      [] at = "set_mem" -> <<"Disabling indexes for bulk import...">>
      [] at = "copy_nodes" -> <<"Importing road nodes...">>
      [] at = "copy_ways" -> <<"Importing ways...">>
      [] at = "copy_attractions" -> <<"Importing tourist attractions...">>
      [] at = "segments" -> <<"Creating road segments...">>
      [] at = "assign_update" -> <<"Assigning tourist attractions to nearest cities...">>
      [] at = "assign_counts" -> <<"Calculating city tourist attraction statistics...">>
      [] OTHER -> <<>>

\* a statement that ends normally: from `at` to `next`
Goto(at, next) ==
    /\ pc = at
    /\ pc' = next
    /\ out' = out \o LinesAt(at)
    /\ raised' = raised

\* Start of a run that clears the tables before it reads the file
Start_ClearsFirst ==
    /\ pc = "start"
    /\ pc' = "extract"
    /\ out' = out \o <<"Parsing OSM file", "Reading OSM data...">>
    /\ tx' = Truncated(tx)
    /\ db' = Truncated(tx)
    /\ UNCHANGED <<toolVars, graphVars, handlerVars, db0, buffer, raised>>

\* lines 276-287: the file is missing, or the pass begins
Start ==
    /\ pc = "start"
    /\ \/ /\ pc' = "extract"
          /\ out' = out \o <<"Parsing OSM file", "Reading OSM data...">>
       \/ /\ pc' = "exit1"
          /\ out' = Append(out, "Error: File not found")
    /\ UNCHANGED <<toolVars, graphVars, handlerVars, dbVars, buffer, raised>>

\* apply_file hands the next point entity to OSMHandler.node
ReadNode(n) ==
    /\ pc = "extract"
    /\ node_count < MaxNodeEvents
    /\ HandlerNode(n)
    /\ stream' = stream
    /\ UNCHANGED <<toolVars, graphVars, runVars, dbVars, buffer>>

\* apply_file hands the next line entity to OSMHandler.way
ReadWay(w) ==
    /\ pc = "extract"
    /\ Len(ways) < MaxWays
    /\ HandlerWay(w)
    /\ stream' = stream
    /\ UNCHANGED <<toolVars, graphVars, runVars, dbVars, buffer>>

\* line 287: the process is interrupted while apply_file reads the file;
\* nothing in main handles KeyboardInterrupt
Interrupt ==
    /\ pc = "extract"
    /\ pc' = "crashed"
    /\ raised' = "KeyboardInterrupt"
    /\ UNCHANGED <<toolVars, graphVars, handlerVars, dbVars, buffer, out>>

\* apply_file returns; lines 289-292
EndOfFile ==
    /\ pc = "extract"
    /\ pc' = "reclaim"
    /\ out' = Append(out, "Extracted:")
    /\ UNCHANGED <<toolVars, graphVars, handlerVars, dbVars, buffer, raised>>

\* lines 294-301
Reclaim ==
    /\ pc = "reclaim"
    /\ node_coords' = ReclaimedCoords(node_coords, road_node_ids)
    /\ pc' = "connect"
    /\ out' = Append(out, "Optimizing memory...")
    /\ UNCHANGED <<toolVars, graphVars, ways, tourist_attractions, road_node_ids, node_count, stream,
                   dbVars, buffer, raised>>

\* lines 304-313 and 321-323: psycopg2.connect returns or raises
Connect ==
    /\ pc = "connect"
    /\ \/ /\ pc' = "truncate"
          /\ out' = Append(out, "Connecting to PostgreSQL")
          /\ raised' = raised
       \/ /\ pc' = "exit1"
          /\ out' = out \o <<"Connecting to PostgreSQL", "Database error">>
          /\ raised' = "psycopg2.Error"
    /\ tx' = db
    /\ UNCHANGED <<toolVars, graphVars, handlerVars, db0, db, buffer>>

\* line 132 without the TRUNCATE: the tables keep their rows
Truncate_KeepsRows ==
    /\ Goto("truncate", "commit1")
    /\ tx' = tx
    /\ UNCHANGED <<toolVars, graphVars, handlerVars, db0, db, buffer>>

\* line 132
Truncate ==
    /\ Goto("truncate", "commit1")
    /\ tx' = Truncated(tx)
    /\ UNCHANGED <<toolVars, graphVars, handlerVars, db0, db, buffer>>

\* line 133
Commit1 ==
    /\ Goto("commit1", "set_mem")
    /\ db' = tx
    /\ UNCHANGED <<toolVars, graphVars, handlerVars, db0, tx, buffer>>

\* line 137
SetMem ==
    /\ Goto("set_mem", "copy_nodes")
    /\ UNCHANGED <<toolVars, graphVars, handlerVars, dbVars, buffer>>

\* lines 140-147
CopyNodes ==
    /\ Goto("copy_nodes", "copy_ways")
    /\ tx' = [tx EXCEPT !.osm_nodes = @ \o RoadNodeRows(road_node_ids, node_coords)]
    /\ UNCHANGED <<toolVars, graphVars, handlerVars, db0, db, buffer>>

\* lines 150-159
CopyWays ==
    /\ Goto("copy_ways", "copy_attractions")
    /\ tx' = [tx EXCEPT !.osm_ways = @ \o WayRows(ways)]
    /\ UNCHANGED <<toolVars, graphVars, handlerVars, db0, db, buffer>>

\* lines 162-165
CopyAttractions ==
    /\ Goto("copy_attractions", "commit2")
    /\ tx' = [tx EXCEPT !.tourist_attractions = @ \o AttractionRows(tourist_attractions)]
    /\ UNCHANGED <<toolVars, graphVars, handlerVars, db0, db, buffer>>

\* Commit2 of a run that goes on without create_road_segments
Commit2_SkipSegments ==
    /\ Goto("commit2", "assign_update")
    /\ db' = tx
    /\ UNCHANGED <<toolVars, graphVars, handlerVars, db0, tx, buffer>>

\* line 167
Commit2 ==
    /\ Goto("commit2", "segments")
    /\ db' = tx
    /\ UNCHANGED <<toolVars, graphVars, handlerVars, db0, tx, buffer>>

\* create_road_segments, lines 184-213: the loop that fills the buffer.  An
\* exception other than psycopg2.Error passes import_to_postgres and main
\* uncaught; conn.close() drops what was not committed.
SynthesizeSegments ==
    LET r == SegmentBuffer(ways, node_coords)
    IN  /\ pc = "segments"
        /\ buffer' = r.rows
        /\ out' = out \o LinesAt("segments")
        /\ raised' = r.raised
        /\ IF r.raised = "none"
           THEN pc' = "copy_segments" /\ tx' = tx
           ELSE pc' = "crashed" /\ tx' = db
        /\ UNCHANGED <<toolVars, graphVars, handlerVars, db0, db>>

\* create_road_segments, lines 215-220
CopySegments ==
    /\ pc = "copy_segments"
    /\ pc' = "commit3"
    /\ tx' = [tx EXCEPT !.road_segments = @ \o StoredSegments(buffer)]
    /\ out' = Append(out, "Created road segments")
    /\ UNCHANGED <<toolVars, graphVars, handlerVars, db0, db, buffer, raised>>

\* line 172; import_to_postgres returns
Commit3 ==
    /\ Goto("commit3", "assign_update")
    /\ db' = tx
    /\ UNCHANGED <<toolVars, graphVars, handlerVars, db0, tx, buffer>>

\* the statements of import_to_postgres that reach the store
ImportStatements ==
    {"truncate", "commit1", "set_mem", "copy_nodes", "copy_ways", "copy_attractions",
     "commit2", "copy_segments", "commit3"}

\* copy_to_table returns 0 before it reaches the store when it is given no row
ReachesStore(at) ==
    CASE at = "copy_nodes" -> RoadNodeRows(road_node_ids, node_coords) # <<>>
      [] at = "copy_attractions" -> tourist_attractions # <<>>
      [] OTHER -> TRUE

\* ImportDbError without conn.rollback()
ImportDbError_NoRollback ==
    /\ pc \in ImportStatements
    /\ ReachesStore(pc)
    /\ pc' = "exit1"
    /\ raised' = "psycopg2.Error"
    /\ out' = out \o LinesAt(pc) \o <<"Database error during import", "Database error">>
    /\ UNCHANGED <<toolVars, graphVars, handlerVars, dbVars, buffer>>

\* lines 174-177 and 321-323: a statement of import_to_postgres raises
\* psycopg2.Error; rollback, re-raise, sys.exit(1)
ImportDbError ==
    /\ pc \in ImportStatements
    /\ ReachesStore(pc)
    /\ tx' = db
    /\ pc' = "exit1"
    /\ raised' = "psycopg2.Error"
    /\ out' = out \o LinesAt(pc) \o <<"Database error during import", "Database error">>
    /\ UNCHANGED <<toolVars, graphVars, handlerVars, db0, db, buffer>>


---------------------------------------------------------------------------
(* assign_tourist_attractions_to_cities. *)

\* line 234: (ta.lat - c.lat)^2 + (ta.lon - c.lon)^2
SqDist(ta, c) ==
    (ta.lat - c.lat) * (ta.lat - c.lat) + (ta.lon - c.lon) * (ta.lon - c.lon)

\* NearestCityIds with the order of the subquery descending
NearestCityIds_Farthest(ta, cities) ==
    IF cities = {} THEN {NULL}
    ELSE {<<c.id>> : c \in {c \in cities : \A d \in cities : SqDist(ta, c) >= SqDist(ta, d)}}

\* lines 231-236: what the subquery may return for row ta; ORDER BY ... LIMIT 1
\* returns any of the rows that sort first, and NULL when cities is empty
NearestCityIds(ta, cities) ==
    IF cities = {} THEN {NULL}
    ELSE {<<c.id>> : c \in {c \in cities : \A d \in cities : SqDist(ta, c) <= SqDist(ta, d)}}

\* CountRow with COUNT over all rows of tourist_attractions
CountRow_AllRows(c, tas) ==
    [count |-> Len(tas),
     per_capita |-> RatMul(RatDiv(IntToRat(Len(tas)), IntToRat(c.population)),
                           IntToRat(10000))]

\* lines 242-252: the summary row of city c
CountRow(c, tas) ==
    LET n == Cardinality({i \in 1..Len(tas) : tas[i].nearest_city_id = <<c.id>>})
    IN  [count |-> n,
         per_capita |-> RatMul(RatDiv(IntToRat(n), IntToRat(c.population)), IntToRat(10000))]

\* lines 242-252: the summary table after the upsert
UpsertCounts(old, cities, tas) ==
    LET ids == {c.id : c \in cities}
        city(i) == CHOOSE c \in cities : c.id = i
    IN  [i \in (DOMAIN old) \cup ids |->
            IF i \in ids THEN CountRow(city(i), tas) ELSE old[i]]

\* lines 229-238 followed by a commit of the update alone
AssignUpdate_Commits ==
    /\ Goto("assign_update", "assign_counts")
    /\ \E f \in [1..Len(tx.tourist_attractions) -> {NULL} \cup {<<c.id>> : c \in tx.cities}] :
          /\ \A i \in 1..Len(tx.tourist_attractions) :
                f[i] \in NearestCityIds(tx.tourist_attractions[i], tx.cities)
          /\ tx' = [tx EXCEPT !.tourist_attractions =
                        [i \in 1..Len(@) |-> [@[i] EXCEPT !.nearest_city_id = f[i]]]]
    /\ db' = tx'
    /\ UNCHANGED <<toolVars, graphVars, handlerVars, db0, buffer>>

\* lines 229-238
AssignUpdate ==
    /\ Goto("assign_update", "assign_counts")
    /\ \E f \in [1..Len(tx.tourist_attractions) -> {NULL} \cup {<<c.id>> : c \in tx.cities}] :
          /\ \A i \in 1..Len(tx.tourist_attractions) :
                f[i] \in NearestCityIds(tx.tourist_attractions[i], tx.cities)
          /\ tx' = [tx EXCEPT !.tourist_attractions =
                        [i \in 1..Len(@) |-> [@[i] EXCEPT !.nearest_city_id = f[i]]]]
    /\ UNCHANGED <<toolVars, graphVars, handlerVars, db0, db, buffer>>

\* lines 241-253; the division raises in the store for a city of population 0
AssignCounts ==
    /\ Goto("assign_counts", "assign_commit")
    /\ \A c \in tx.cities : c.population # 0
    /\ tx' = [tx EXCEPT !.tourist_attractions_count =
                  UpsertCounts(@, tx.cities, tx.tourist_attractions)]
    /\ UNCHANGED <<toolVars, graphVars, handlerVars, db0, db, buffer>>

\* line 255, and line 319 of main
AssignCommit ==
    /\ pc = "assign_commit"
    /\ pc' = "done"
    /\ db' = tx
    /\ out' = Append(out, "Import complete!")
    /\ UNCHANGED <<toolVars, graphVars, handlerVars, db0, tx, buffer, raised>>

\* lines 256-259 and 321-323: a statement of the assignment raises psycopg2.Error
AssignDbError ==
    /\ pc \in {"assign_update", "assign_counts", "assign_commit"}
    /\ tx' = db
    /\ pc' = "exit1"
    /\ raised' = "psycopg2.Error"
    /\ out' = out \o LinesAt(pc) \o <<"Database error during assignment", "Database error">>
    /\ UNCHANGED <<toolVars, graphVars, handlerVars, db0, db, buffer>>

---------------------------------------------------------------------------
(* config.py: the graph data shared by the two graph builders. *)

INTERSECTIONS ==
    <<[osm_id |-> 1001, lat |-> Rat(34730, 1000), lon |-> Rat(-86586, 1000)],
      [osm_id |-> 1002, lat |-> Rat(34606, 1000), lon |-> Rat(-86983, 1000)],
      [osm_id |-> 1003, lat |-> Rat(33520, 1000), lon |-> Rat(-86802, 1000)],
      [osm_id |-> 1004, lat |-> Rat(32377, 1000), lon |-> Rat(-86300, 1000)],
      [osm_id |-> 1005, lat |-> Rat(30694, 1000), lon |-> Rat(-88043, 1000)],
      [osm_id |-> 1006, lat |-> Rat(32835, 1000), lon |-> Rat(-86629, 1000)],
      [osm_id |-> 1007, lat |-> Rat(33173, 1000), lon |-> Rat(-86251, 1000)],
      [osm_id |-> 1008, lat |-> Rat(32944, 1000), lon |-> Rat(-85954, 1000)]>>

I_65 == <<"I", "-", "6", "5">>
US_31 == <<"U", "S", "-", "3", "1">>
US_280 == <<"U", "S", "-", "2", "8", "0">>
US_231 == <<"U", "S", "-", "2", "3", "1">>
Motorway == <<"m", "o", "t", "o", "r", "w", "a", "y">>
Primary == <<"p", "r", "i", "m", "a", "r", "y">>

Road(start, end, name, htype, length_miles, speed_mph, travel_s) ==
    [start |-> start, end |-> end, name |-> name, htype |-> htype,
     length_miles |-> length_miles, speed_mph |-> speed_mph, travel_s |-> travel_s]

ROADS ==
    <<Road(1001, 1002, I_65, Motorway, 25, 70, 1286),
      Road(1002, 1003, I_65, Motorway, 81, 70, 4166),
      Road(1003, 1004, I_65, Motorway, 90, 70, 4629),
      Road(1004, 1005, I_65, Motorway, 168, 70, 8640),
      Road(1003, 1006, US_31, Primary, 40, 55, 2618),
      Road(1006, 1004, US_31, Primary, 53, 55, 3469),
      Road(1003, 1007, US_280, Primary, 40, 55, 2618),
      Road(1007, 1008, US_280, Primary, 25, 55, 1636),
      Road(1008, 1004, US_231, Primary, 50, 55, 3273)>>

CITY_CONNECTIONS ==
    <<[city_name |-> <<"H", "u", "n", "t", "s", "v", "i", "l", "l", "e">>,
       node_id |-> 1001, dist_miles |-> 3],
      [city_name |-> <<"B", "i", "r", "m", "i", "n", "g", "h", "a", "m">>,
       node_id |-> 1003, dist_miles |-> 2],
      [city_name |-> <<"M", "o", "n", "t", "g", "o", "m", "e", "r", "y">>,
       node_id |-> 1004, dist_miles |-> 1],
      [city_name |-> <<"M", "o", "b", "i", "l", "e">>,
       node_id |-> 1005, dist_miles |-> 2],
      [city_name |-> <<"T", "u", "s", "c", "a", "l", "o", "o", "s", "a">>,
       node_id |-> 1003, dist_miles |-> 50]>>

DigitChar(d) ==
    CASE d = 0 -> "0" [] d = 1 -> "1" [] d = 2 -> "2" [] d = 3 -> "3"
      [] d = 4 -> "4" [] d = 5 -> "5" [] d = 6 -> "6" [] d = 7 -> "7"
      [] d = 8 -> "8" [] d = 9 -> "9"

\* str(i) of an integer
RECURSIVE IntText(_)
IntText(i) ==
    IF i < 0 THEN <<"-">> \o IntText(-i)
    ELSE IF i < 10 THEN <<DigitChar(i)>>
    ELSE IntText(i \div 10) \o <<DigitChar(i % 10)>>

\* f'int_{osm_id}'
intersection_key(osm_id) == <<"i", "n", "t", "_">> \o IntText(osm_id)

---------------------------------------------------------------------------
(* The text the builders put into statements, and what the backend reads. *)

\* str(f) of a float with at most three decimals: the shortest decimal text
\* that reads back as f, with at least one digit after the point
FloatText(q) ==
    LET m == (q.n * 1000) \div q.d
        a == Abs(m)
        fr == a % 1000
        d1 == fr \div 100
        d2 == (fr \div 10) % 10
        d3 == fr % 10
        frac == IF d3 # 0 THEN <<DigitChar(d1), DigitChar(d2), DigitChar(d3)>>
                ELSE IF d2 # 0 THEN <<DigitChar(d1), DigitChar(d2)>>
                ELSE <<DigitChar(d1)>>
    IN  (IF m < 0 THEN <<"-">> ELSE <<>>) \o IntText(a \div 1000) \o <<".">> \o frac

\* the value of a float literal of a Cypher statement
CypherFloat(text) == ParseFloat(text).val

\* the value of an integer literal of a Cypher statement
CypherInt(text) ==
    IF text # <<>> /\ Head(text) = "-" THEN -DecVal(Tail(text)) ELSE DecVal(text)

\* build_graph.py, escape_cypher_string
escape_cypher_string(s) ==
    IF s = None THEN <<>>
    ELSE Replace(Replace(s, <<"\\">>, <<"\\", "\\">>), <<"'">>, <<"\\", "'">>)

\* the text of a single-quoted Cypher literal: a backslash gives the next
\* character its escaped meaning
RECURSIVE CypherString(_)
CypherString(lit) ==
    IF lit = <<>> THEN <<>>
    ELSE IF Head(lit) = "\\" /\ Len(lit) >= 2
         THEN <<CASE lit[2] = "n" -> "\n" [] lit[2] = "t" -> "\t" [] OTHER -> lit[2]>>
              \o CypherString(SubSeq(lit, 3, Len(lit)))
         ELSE <<Head(lit)>> \o CypherString(Tail(lit))

LowerChar(c) ==
    CASE c = "A" -> "a" [] c = "B" -> "b" [] c = "C" -> "c" [] c = "D" -> "d"
      [] c = "E" -> "e" [] c = "F" -> "f" [] c = "G" -> "g" [] c = "H" -> "h"
      [] c = "I" -> "i" [] c = "J" -> "j" [] c = "K" -> "k" [] c = "L" -> "l"
      [] c = "M" -> "m" [] c = "N" -> "n" [] c = "O" -> "o" [] c = "P" -> "p"
      [] c = "Q" -> "q" [] c = "R" -> "r" [] c = "S" -> "s" [] c = "T" -> "t"
      [] c = "U" -> "u" [] c = "V" -> "v" [] c = "W" -> "w" [] c = "X" -> "x"
      [] c = "Y" -> "y" [] c = "Z" -> "z" [] OTHER -> c

\* name.lower().replace(' ', '_')
CityKey(name) == Replace([i \in 1..Len(name) |-> LowerChar(name[i])], <<" ">>, <<"_">>)

\* the rows of the builders' SELECT on cities LEFT JOIN
\* tourist_attractions_count, in the order of the city identifiers
CityRows(d) ==
    LET ids == SetToSeq({c.id : c \in d.cities})
        city(i) == CHOOSE c \in d.cities : c.id = i
    IN  [k \in 1..Len(ids) |->
            [city_id |-> ids[k], name |-> city(ids[k]).name,
             lat |-> city(ids[k]).lat, lon |-> city(ids[k]).lon,
             population |-> city(ids[k]).population, county |-> city(ids[k]).county,
             tourist_attractions_count |->
                 IF ids[k] \in DOMAIN d.tourist_attractions_count
                 THEN d.tourist_attractions_count[ids[k]].count ELSE 0]]

---------------------------------------------------------------------------
(* build_graph.py: the Apache AGE builder. *)

NoGraph == [exists |-> FALSE, vertices |-> <<>>, edges |-> <<>>]
EmptyGraph == [exists |-> TRUE, vertices |-> <<>>, edges |-> <<>>]

\* lines 72-81: the City node a statement creates from a row of the SELECT
AgeCityNode(row) ==
    [label |-> "City",
     properties |->
        [id |-> CypherInt(IntText(row.city_id)),
         name |-> CypherString(escape_cypher_string(row.name)),
         lat |-> CypherFloat(FloatText(Rat(row.lat, 1000))),
         lon |-> CypherFloat(FloatText(Rat(row.lon, 1000))),
         population |-> CypherInt(IntText(row.population)),
         tourist_attractions_count |-> CypherInt(IntText(row.tourist_attractions_count))]]

\* lines 87-89: the Intersection node of an entry of INTERSECTIONS
AgeIntersectionNode(x) ==
    [label |-> "Intersection",
     properties |->
        [osm_id |-> CypherInt(IntText(x.osm_id)),
         lat |-> CypherFloat(FloatText(x.lat)),
         lon |-> CypherFloat(FloatText(x.lon))]]

\* the vertices of g a MATCH pattern (label {key: val}) binds
Matching(g, label, key, val) ==
    {i \in 1..Len(g.vertices) :
        g.vertices[i].label = label /\ g.vertices[i].properties[key] = val}

\* MATCH (a), (b) CREATE (a)-[:label props]->(b): an edge for every binding
CreateEdges(g, as, bs, label, props) ==
    LET sa == SetToSeq(as)
        sb == SetToSeq(bs)
        new == [k \in 1..(Len(sa) * Len(sb)) |->
                   [label |-> label,
                    start_id |-> sa[((k - 1) \div Len(sb)) + 1],
                    end_id |-> sb[((k - 1) % Len(sb)) + 1],
                    properties |-> props]]
    IN  [g EXCEPT !.edges = @ \o new]

\* lines 98-108: the properties of the ROAD relationship from s to e
AgeRoadProps(road, s, e) ==
    [way_id |-> CypherInt(IntText(s * 1000 + e)),
     name |-> CypherString(escape_cypher_string(road.name)),
     highway_type |-> CypherString(escape_cypher_string(road.htype)),
     length_miles |-> CypherFloat(FloatText(IntToRat(road.length_miles))),
     speed_mph |-> CypherInt(IntText(road.speed_mph)),
     travel_time_s |-> CypherFloat(FloatText(IntToRat(road.travel_s)))]

\* lines 97-108: the k-th statement of the ROAD loop, on the graph g
AgeRoadStatement(g, k) ==
    LET road == ROADS[((k - 1) \div 2) + 1]
        s == IF k % 2 = 1 THEN road.start ELSE road.end
        e == IF k % 2 = 1 THEN road.end ELSE road.start
    IN  CreateEdges(g,
                    Matching(g, "Intersection", "osm_id", CypherInt(IntText(s))),
                    Matching(g, "Intersection", "osm_id", CypherInt(IntText(e))),
                    "ROAD", AgeRoadProps(road, s, e))

\* lines 113-118: the statement of the k-th entry of CITY_CONNECTIONS
AgeNearestStatement(g, k) ==
    LET c == CITY_CONNECTIONS[k]
    IN  CreateEdges(g,
                    Matching(g, "City", "name",
                             CypherString(escape_cypher_string(c.city_name))),
                    Matching(g, "Intersection", "osm_id", CypherInt(IntText(c.node_id))),
                    "NEAREST_INTERSECTION",
                    [distance_miles |-> CypherFloat(FloatText(IntToRat(c.dist_miles)))])

---------------------------------------------------------------------------
(* build_graph_arango.py: the ArangoDB builder. *)

EmptyArango ==
    [cities |-> <<>>, intersections |-> <<>>, roads |-> <<>>,
     nearest_intersection |-> <<>>]

Collection(name) ==
    CASE name = "cities" -> <<"c", "i", "t", "i", "e", "s", "/">>
      [] name = "intersections" ->
            <<"i", "n", "t", "e", "r", "s", "e", "c", "t", "i", "o", "n", "s", "/">>

\* lines 107-118: the document of a row of the SELECT
CityDoc(row) ==
    [_key |-> CityKey(row.name),
     name |-> row.name,
     lat |-> Rat(row.lat, 1000),
     lon |-> Rat(row.lon, 1000),
     location |-> <<Rat(row.lat, 1000), Rat(row.lon, 1000)>>,
     population |-> row.population,
     county |-> row.county,
     tourist_attractions_count |-> row.tourist_attractions_count]

\* lines 127-133: the document of an entry of INTERSECTIONS
IntersectionDoc(x) ==
    [_key |-> intersection_key(x.osm_id), osm_id |-> x.osm_id,
     lat |-> x.lat, lon |-> x.lon, location |-> <<x.lat, x.lon>>]

\* ArangoRoadEdge with the speed stored as the travel time
ArangoRoadEdge_SpeedAsTime(road, s, e) ==
    [_from |-> Collection("intersections") \o intersection_key(s),
     _to |-> Collection("intersections") \o intersection_key(e),
     way_id |-> s * 1000 + e,
     name |-> road.name,
     highway_type |-> road.htype,
     length_miles |-> IntToRat(road.length_miles),
     speed_mph |-> road.speed_mph,
     travel_time_s |-> IntToRat(road.speed_mph)]

\* lines 141-150: the edge from s to e of an entry of ROADS
ArangoRoadEdge(road, s, e) ==
    [_from |-> Collection("intersections") \o intersection_key(s),
     _to |-> Collection("intersections") \o intersection_key(e),
     way_id |-> s * 1000 + e,
     name |-> road.name,
     highway_type |-> road.htype,
     length_miles |-> IntToRat(road.length_miles),
     speed_mph |-> road.speed_mph,
     travel_time_s |-> IntToRat(road.travel_s)]

\* road_edges with the direction start -> end only
RoadEdges_ForwardOnly ==
    [k \in 1..Len(ROADS) |-> ArangoRoadEdge(ROADS[k], ROADS[k].start, ROADS[k].end)]

\* lines 139-151: road_edges, both directions of every entry of ROADS
RoadEdges ==
    [k \in 1..(2 * Len(ROADS)) |->
        LET road == ROADS[((k - 1) \div 2) + 1]
        IN  IF k % 2 = 1 THEN ArangoRoadEdge(road, road.start, road.end)
            ELSE ArangoRoadEdge(road, road.end, road.start)]

\* lines 158-164: conn_edges
ConnEdges ==
    [k \in 1..Len(CITY_CONNECTIONS) |->
        [_from |-> Collection("cities") \o CityKey(CITY_CONNECTIONS[k].city_name),
         _to |-> Collection("intersections")
                   \o intersection_key(CITY_CONNECTIONS[k].node_id),
         distance_miles |-> IntToRat(CITY_CONNECTIONS[k].dist_miles)]]

\* insert_many on a document collection: a document whose key is in the
\* collection is not inserted (the driver returns the error, it does not raise)
RECURSIVE InsertMany(_, _)
InsertMany(col, docs) ==
    IF docs = <<>> THEN col
    ELSE IF \E k \in 1..Len(col) : col[k]._key = Head(docs)._key
         THEN InsertMany(col, Tail(docs))
         ELSE InsertMany(Append(col, Head(docs)), Tail(docs))

---------------------------------------------------------------------------
(* The statements of build_graph.py's main.  The connection is in          *)
(* autocommit mode: what a statement has done stays done.                  *)

AgeCypherAt == {"cities", "intersections", "roads", "nearest"}

\* lines 132-141: psycopg2.connect
AgeConnect ==
    /\ age_pc = "start"
    /\ \/ /\ age_pc' = "setup"
          /\ age_out' = Append(age_out, "Connecting to PostgreSQL...")
       \/ /\ age_pc' = "exit1"
          /\ age_out' = age_out \o <<"Connecting to PostgreSQL...",
                                     "Error connecting to database">>
    /\ UNCHANGED <<age, age_k, arangoVars, importVars, toolVars>>

\* lines 146-157: LOAD, SET, ALTER DATABASE, and drop_graph if the graph exists
AgeDropGraph ==
    /\ age_pc = "setup"
    /\ age_pc' = "create"
    /\ age' = NoGraph
    /\ age_out' = IF age.exists THEN Append(age_out, "Dropping existing graph...")
                  ELSE age_out
    /\ UNCHANGED <<age_k, arangoVars, importVars, toolVars>>

\* lines 158-159 and 61-68: create_graph, and build_graph's SELECT
AgeCreateGraph ==
    /\ age_pc = "create"
    /\ age_pc' = "cities"
    /\ age' = EmptyGraph
    /\ age_k' = 0
    /\ age_out' = age_out \o <<"Creating graph...", "Creating City nodes...">>
    /\ UNCHANGED <<arangoVars, importVars, toolVars>>

\* The text of a statement is a sequence of pieces: the characters ' \ and $
\* stand alone, and a piece of several characters holds none of them.

\* lines 72-81: the query of a row of the SELECT
CityQuery(row) ==
    <<"CREATE (:City {id: ">> \o IntText(row.city_id)
      \o <<", name: ", "'">> \o escape_cypher_string(row.name) \o <<"'">>
      \o <<", lat: ">> \o FloatText(Rat(row.lat, 1000))
      \o <<", lon: ">> \o FloatText(Rat(row.lon, 1000))
      \o <<", population: ">> \o IntText(row.population)
      \o <<", tourist_attractions_count: ">> \o IntText(row.tourist_attractions_count)
      \o <<"})">>

AfterCypher == <<") AS (result ag_catalog.agtype)">>

\* lines 24-27: the statement execute_cypher sends for a query
execute_cypher(query) ==
    <<"SELECT * FROM ag_catalog.cypher(", "'", "alabama_routing", "'", ", ", "$", "$">>
      \o query \o <<"$", "$">> \o AfterCypher

\* PostgreSQL reads a dollar-quoted constant from the first $$ of the
\* statement to the next $$: the constant, and the rest of the statement
DollarQuoted(sql) ==
    LET pairs == {i \in 1..(Len(sql) - 1) : sql[i] = "$" /\ sql[i + 1] = "$"}
        open == CHOOSE i \in pairs : \A k \in pairs : i <= k
        later == {i \in pairs : i >= open + 2}
        close == CHOOSE i \in later : \A k \in later : i <= k
    IN  [body |-> SubSeq(sql, open + 2, close - 1),
         rest |-> SubSeq(sql, close + 2, Len(sql))]

\* the statement reaches cypher() with the whole query as its constant
Received(query) ==
    LET sent == DollarQuoted(execute_cypher(query))
    IN  sent.body = query /\ sent.rest = AfterCypher

\* lines 70-82: the next CREATE (:City), or the end of the loop; a statement
\* that does not parse raises psycopg2.Error (lines 29-31 and 181-183)
AgeCreateCities ==
    /\ age_pc = "cities"
    /\ IF age_k < Len(CityRows(db))
       THEN IF Received(CityQuery(CityRows(db)[age_k + 1]))
            THEN /\ age' = [age EXCEPT
                               !.vertices = Append(@, AgeCityNode(CityRows(db)[age_k + 1]))]
                 /\ age_k' = age_k + 1
                 /\ UNCHANGED <<age_pc, age_out>>
            ELSE /\ age_pc' = "exit1"
                 /\ age_out' = age_out \o <<"Cypher query failed", "Database error">>
                 /\ UNCHANGED <<age, age_k>>
       ELSE /\ age_pc' = "intersections"
            /\ age_k' = 0
            /\ age_out' = age_out \o <<"Created City nodes", "Creating Intersection nodes...">>
            /\ age' = age
    /\ UNCHANGED <<arangoVars, importVars, toolVars>>

\* lines 85-90: the next CREATE (:Intersection), or the end of the loop
AgeCreateIntersections ==
    /\ age_pc = "intersections"
    /\ IF age_k < Len(INTERSECTIONS)
       THEN /\ age' = [age EXCEPT
                          !.vertices = Append(@, AgeIntersectionNode(INTERSECTIONS[age_k + 1]))]
            /\ age_k' = age_k + 1
            /\ UNCHANGED <<age_pc, age_out>>
       ELSE /\ age_pc' = "roads"
            /\ age_k' = 0
            /\ age_out' = age_out \o <<"Created Intersection nodes",
                                       "Creating ROAD relationships...">>
            /\ age' = age
    /\ UNCHANGED <<arangoVars, importVars, toolVars>>

\* lines 93-109: the next MATCH ... CREATE of a ROAD, or the end of the loop
AgeCreateRoads ==
    /\ age_pc = "roads"
    /\ IF age_k < 2 * Len(ROADS)
       THEN /\ age' = AgeRoadStatement(age, age_k + 1)
            /\ age_k' = age_k + 1
            /\ UNCHANGED <<age_pc, age_out>>
       ELSE /\ age_pc' = "nearest"
            /\ age_k' = 0
            /\ age_out' = age_out \o <<"Created ROAD relationships",
                                       "Connecting cities to road network...">>
            /\ age' = age
    /\ UNCHANGED <<arangoVars, importVars, toolVars>>

\* lines 112-119: the next MATCH ... CREATE of a NEAREST_INTERSECTION, or the
\* end of build_graph
AgeConnectCities ==
    /\ age_pc = "nearest"
    /\ IF age_k < Len(CITY_CONNECTIONS)
       THEN /\ age' = AgeNearestStatement(age, age_k + 1)
            /\ age_k' = age_k + 1
            /\ age_out' = Append(age_out, "Connected")
            /\ age_pc' = age_pc
       ELSE /\ age_pc' = "finish"
            /\ age_k' = 0
            /\ UNCHANGED <<age, age_out>>
    /\ UNCHANGED <<arangoVars, importVars, toolVars>>

\* lines 162-188: create_indexes, the summary, close
AgeFinish ==
    /\ age_pc = "finish"
    /\ age_pc' = "done"
    /\ age_out' = age_out \o <<"Creating indexes...", "Indexes created",
                               "Graph Summary:", "Done!">>
    /\ UNCHANGED <<age, age_k, arangoVars, importVars, toolVars>>

\* lines 29-31 and 181-183: a statement raises psycopg2.Error
AgeDbError ==
    /\ age_pc \in {"setup", "create", "finish"} \cup AgeCypherAt
    /\ age_pc' = "exit1"
    /\ age_out' = age_out
                    \o (IF age_pc \in AgeCypherAt THEN <<"Cypher query failed">> ELSE <<>>)
                    \o <<"Database error">>
    /\ UNCHANGED <<age, age_k, arangoVars, importVars, toolVars>>

---------------------------------------------------------------------------
(* The statements of build_graph_arango.py's main. *)

\* lines 191-199: psycopg2.connect
ArangoConnect ==
    /\ arango_pc = "start"
    /\ \/ /\ arango_pc' = "setup"
          /\ arango_out' = Append(arango_out, "Connecting to PostgreSQL...")
       \/ /\ arango_pc' = "exit1"
          /\ arango_out' = arango_out \o <<"Connecting to PostgreSQL...",
                                           "Error connecting to PostgreSQL">>
    /\ UNCHANGED <<arango, ageVars, importVars, toolVars>>

\* lines 202-208: setup_database; the collections exist afterwards
ArangoSetup ==
    /\ arango_pc = "setup"
    /\ \/ /\ arango_pc' = "truncate"
          /\ arango_out' = arango_out \o <<"Connecting to ArangoDB...", "Created indexes">>
       \/ /\ arango_pc' = "exit1"
          /\ arango_out' = arango_out \o <<"Connecting to ArangoDB...",
                                           "Error connecting to ArangoDB">>
    /\ UNCHANGED <<arango, ageVars, importVars, toolVars>>

\* lines 88-93 without the truncates: the collections keep their documents
ArangoTruncate_KeepsDocuments ==
    /\ arango_pc = "truncate"
    /\ arango_pc' = "cities"
    /\ arango' = arango
    /\ arango_out' = Append(arango_out, "Cleared existing data")
    /\ UNCHANGED <<ageVars, importVars, toolVars>>

\* lines 88-93: the four truncates
ArangoTruncate ==
    /\ arango_pc = "truncate"
    /\ arango_pc' = "cities"
    /\ arango' = EmptyArango
    /\ arango_out' = Append(arango_out, "Cleared existing data")
    /\ UNCHANGED <<ageVars, importVars, toolVars>>

\* lines 96-121: the city documents
ArangoCities ==
    /\ arango_pc = "cities"
    /\ arango_pc' = "intersections"
    /\ arango' = [arango EXCEPT
                    !.cities = InsertMany(@, [k \in 1..Len(CityRows(db)) |->
                                                CityDoc(CityRows(db)[k])])]
    /\ arango_out' = arango_out \o <<"Creating City documents...", "Created City documents">>
    /\ UNCHANGED <<ageVars, importVars, toolVars>>

\* lines 124-135: the intersection documents
ArangoIntersections ==
    /\ arango_pc = "intersections"
    /\ arango_pc' = "roads"
    /\ arango' = [arango EXCEPT
                    !.intersections =
                        InsertMany(@, [k \in 1..Len(INTERSECTIONS) |->
                                          IntersectionDoc(INTERSECTIONS[k])])]
    /\ arango_out' = arango_out \o <<"Creating Intersection documents...",
                                     "Created Intersection documents">>
    /\ UNCHANGED <<ageVars, importVars, toolVars>>

\* lines 138-153: the ROAD edges
ArangoRoads ==
    /\ arango_pc = "roads"
    /\ arango_pc' = "nearest"
    /\ arango' = [arango EXCEPT !.roads = @ \o RoadEdges]
    /\ arango_out' = arango_out \o <<"Creating ROAD edges...", "Created ROAD edges">>
    /\ UNCHANGED <<ageVars, importVars, toolVars>>

\* lines 156-166: the edges from the cities to their intersections
ArangoNearest ==
    /\ arango_pc = "nearest"
    /\ arango_pc' = "summary"
    /\ arango' = [arango EXCEPT !.nearest_intersection = @ \o ConnEdges]
    /\ arango_out' = arango_out \o <<"Connecting cities to road network...">>
                        \o [k \in 1..Len(CITY_CONNECTIONS) |-> "Connected"]
    /\ UNCHANGED <<ageVars, importVars, toolVars>>

\* lines 212 and 218-221: print_summary, close
ArangoSummary ==
    /\ arango_pc = "summary"
    /\ arango_pc' = "done"
    /\ arango_out' = arango_out \o <<"Graph Summary:", "Done!">>
    /\ UNCHANGED <<arango, ageVars, importVars, toolVars>>

\* lines 213-217: a statement of build_graph or print_summary raises
ArangoError ==
    /\ arango_pc \in {"truncate", "cities", "intersections", "roads", "nearest", "summary"}
    /\ arango_pc' = "exit1"
    /\ arango_out' = Append(arango_out, "Error building graph")
    /\ UNCHANGED <<arango, ageVars, importVars, toolVars>>

\* no graph builder has run
GraphIdle ==
    /\ age_pc = "start"
    /\ age_k = 0
    /\ age = NoGraph
    /\ age_out = <<>>
    /\ arango_pc = "start"
    /\ arango = EmptyArango
    /\ arango_out = <<>>

\* the next line entity of the stream; a file holds a way identifier once
ReadPipeWay ==
    \E w \in PipeWayInputs :
        /\ \A k \in 1..Len(ways) : ways[k].id # w.id
        /\ ReadWay(w)

---------------------------------------------------------------------------
(* Spec: one run of main on a stream of NodeInputs and PipeWayInputs,      *)
(* against a store that is fresh or holds an earlier import.               *)

Init ==
    /\ HandlerInit
    /\ stream = NoStream
    /\ ToolsIdle
    /\ pc = "start"
    /\ db0 \in {FreshDb, PreviousDb}
    /\ db = db0
    /\ tx = db
    /\ buffer = <<>>
    /\ raised = "none"
    /\ out = <<>>
    /\ GraphIdle

Next ==
    \/ Start
    \/ \E n \in NodeInputs : ReadNode(n)
    \/ ReadPipeWay
    \/ Interrupt
    \/ EndOfFile
    \/ Reclaim
    \/ Connect
    \/ Truncate
    \/ Commit1
    \/ SetMem
    \/ CopyNodes
    \/ CopyWays
    \/ CopyAttractions
    \/ Commit2
    \/ SynthesizeSegments
    \/ CopySegments
    \/ Commit3
    \/ ImportDbError
    \/ AssignUpdate
    \/ AssignCounts
    \/ AssignCommit
    \/ AssignDbError

Spec == Init /\ [][Next]_vars


---------------------------------------------------------------------------
(* SpecExtract: the extraction pass and the reclamation, on streams whose  *)
(* ways reference any nodes, read or not.                                  *)

NodeLists == UNION {[1..k -> NodeIds] : k \in 0..MaxWayLen}

RECURSIVE TotalRefs(_)
TotalRefs(ws) == IF ws = <<>> THEN 0 ELSE Len(Head(ws).node_ids) + TotalRefs(Tail(ws))

ExtractWayTags ==
    {("highway" :> "motorway"), ("highway" :> "residential"), EmptyTags}

\* the point entities of these streams: every node untagged, and the first
\* node also as a point of interest
ExtractNodeInputs == {n \in NodeInputs : n.tags = EmptyTags \/ n.id = 1}

\* the next line entity of the stream: any node list, numbered as it comes
ReadAnyWay ==
    \E nl \in NodeLists, t \in ExtractWayTags :
        /\ TotalRefs(ways) + Len(nl) <= MaxRefs
        /\ ReadWay([id |-> 101 + Len(ways), nodes |-> nl, tags |-> t])

InitExtract == Init /\ db0 = FreshDb

NextExtract ==
    \/ Start
    \/ \E n \in ExtractNodeInputs : ReadNode(n)
    \/ ReadAnyWay
    \/ EndOfFile
    \/ Reclaim

SpecExtract == InitExtract /\ [][NextExtract]_vars

---------------------------------------------------------------------------
(* SpecSegments: create_road_segments on the handler states a run can      *)
(* reach: a first way of any node list and speed string, then FollowWays.  *)

\* "" and the raw maxspeed strings of the model
MaxspeedStrings ==
    {<<"5", "5">>, <<"5", "5", " ", "m", "p", "h">>, <<"5", "5", "m", "p", "h">>,
     <<"0">>, <<"-", "5">>, <<"0", ".", "5">>, <<"+", "5">>, <<"5", " ", "5">>,
     <<" ">>, <<"m", "p", "h">>, <<".">>, <<"f", "a", "s", "t">>,
     <<"n", "a", "n">>, <<"i", "n", "f">>}

SpeedProfiles ==
    {[highway |-> h, name |-> <<>>, oneway |-> o, maxspeed |-> <<>>] :
        h \in HIGHWAY_TYPES, o \in BOOLEAN}
    \cup {[highway |-> "motorway", name |-> RoadName, oneway |-> FALSE, maxspeed |-> m] :
            m \in MaxspeedStrings}

FollowWays ==
    {[node_ids |-> <<2, 1>>, highway |-> "primary", name |-> RoadName,
      oneway |-> TRUE, maxspeed |-> <<>>],
     [node_ids |-> <<1, 2>>, highway |-> "trunk", name |-> <<>>,
      oneway |-> FALSE, maxspeed |-> <<"0">>],
     [node_ids |-> <<1, 1, 2>>, highway |-> "secondary", name |-> <<>>,
      oneway |-> FALSE, maxspeed |-> <<"i", "n", "f">>]}

\* handler.ways: way records numbered 101, 102, ...
WayLists ==
    {<<>>} \cup
    {[k \in 1..(1 + Len(f)) |->
        IF k = 1
        THEN [id |-> 101, node_ids |-> nl, highway |-> p.highway, name |-> p.name,
              oneway |-> p.oneway, maxspeed |-> p.maxspeed]
        ELSE [id |-> 100 + k, node_ids |-> f[k - 1].node_ids,
              highway |-> f[k - 1].highway, name |-> f[k - 1].name,
              oneway |-> f[k - 1].oneway, maxspeed |-> f[k - 1].maxspeed]] :
     p \in SpeedProfiles, nl \in NodeLists,
     f \in UNION {[1..k -> FollowWays] : k \in 0..MaxFollowWays}}

\* the lines printed before create_road_segments is called
OutBeforeSegments ==
    <<"Parsing OSM file", "Reading OSM data...", "Extracted:", "Optimizing memory...",
      "Connecting to PostgreSQL", "Clearing existing data...",
      "Disabling indexes for bulk import...", "Importing road nodes...",
      "Importing ways...", "Importing tourist attractions...">>

\* the run has reached line 171: the handler holds ways and the reclaimed
\* coordinates of some of their nodes, and nodes and ways are committed
InitSegments ==
    /\ ways \in WayLists
    /\ road_node_ids = UNION {Range(ways[k].node_ids) : k \in 1..Len(ways)}
    /\ \E S \in SUBSET road_node_ids : node_coords = [i \in S |-> NodeLocation(i)]
    /\ node_count = Cardinality(DOMAIN node_coords)
    /\ tourist_attractions = <<>>
    /\ stream = NoStream
    /\ ToolsIdle
    /\ pc = "segments"
    /\ db0 = FreshDb
    /\ db = [FreshDb EXCEPT !.osm_nodes = RoadNodeRows(road_node_ids, node_coords),
                            !.osm_ways = WayRows(ways)]
    /\ tx = db
    /\ buffer = <<>>
    /\ raised = "none"
    /\ out = OutBeforeSegments
    /\ GraphIdle

NextSegments ==
    \/ SynthesizeSegments
    \/ CopySegments
    \/ ImportDbError

SpecSegments == InitSegments /\ [][NextSegments]_vars


---------------------------------------------------------------------------
(* SpecGraph: the two graph builders, each run once, in any interleaving,  *)
(* on a store that is fresh or holds an earlier import and on backends     *)
(* that are empty or hold what an interrupted earlier build left.          *)

\* the graph after a build that failed at its second statement
EarlierAge ==
    [EmptyGraph EXCEPT !.vertices = <<AgeCityNode(CityRows(FreshDb)[1])>>]

\* the collections after a build that failed after the city documents
EarlierArango ==
    [EmptyArango EXCEPT !.cities = [k \in 1..Len(CityRows(FreshDb)) |->
                                       CityDoc(CityRows(FreshDb)[k])]]

InitGraph ==
    /\ HandlerInit
    /\ stream = NoStream
    /\ ToolsIdle
    /\ pc = "start"
    /\ db0 \in {FreshDb, PreviousDb}
    /\ db = db0
    /\ tx = db
    /\ buffer = <<>>
    /\ raised = "none"
    /\ out = <<>>
    /\ age_pc = "start"
    /\ age_k = 0
    /\ age \in {NoGraph, EarlierAge}
    /\ age_out = <<>>
    /\ arango_pc = "start"
    /\ arango \in {EmptyArango, EarlierArango}
    /\ arango_out = <<>>

NextGraph ==
    \/ AgeConnect
    \/ AgeDropGraph
    \/ AgeCreateGraph
    \/ AgeCreateCities
    \/ AgeCreateIntersections
    \/ AgeCreateRoads
    \/ AgeConnectCities
    \/ AgeFinish
    \/ AgeDbError
    \/ ArangoConnect
    \/ ArangoSetup
    \/ ArangoTruncate
    \/ ArangoCities
    \/ ArangoIntersections
    \/ ArangoRoads
    \/ ArangoNearest
    \/ ArangoSummary
    \/ ArangoError

SpecGraph == InitGraph /\ [][NextGraph]_vars

---------------------------------------------------------------------------
(* SpecAssign: assign_tourist_attractions_to_cities, called after an       *)
(* import of points of interest only, and called again on its own result.  *)

MaxPois == 2          \* points of interest in the store
MaxCalls == 2         \* calls of assign_tourist_attractions_to_cities

\* where a point of interest may be: at either city, half way between the
\* two cities, and at (34.0, -86.9)
PoiLocations == {<<34730, -86586>>, <<33520, -86802>>, <<34125, -86694>>, <<34000, -86900>>}

\* the handler's records of the points of interest at the locations ls
PoiRecords(ls) ==
    [k \in 1..Len(ls) |->
        [osm_id |-> k, name |-> UnnamedName("museum"), tourism_type |-> "museum",
         lat |-> ls[k][1], lon |-> ls[k][2]]]

\* the cities tables: both cities, the first city only, none
CityTables == {Cities, {c \in Cities : c.id = 1}, {}}

\* the summary table before the call: empty, or left by an earlier import
OldCounts == {FreshDb.tourist_attractions_count, PreviousDb.tourist_attractions_count}

\* the calls of assign_tourist_attractions_to_cities that have begun
Calls ==
    LET IsCall(line) == line = "Assigning tourist attractions to nearest cities..."
    IN  Len(SelectSeq(out, IsCall))

\* the caller calls assign_tourist_attractions_to_cities once more
AssignAgain ==
    /\ pc = "done"
    /\ Calls < MaxCalls
    /\ pc' = "assign_update"
    /\ UNCHANGED <<toolVars, graphVars, handlerVars, dbVars, buffer, raised, out>>

\* import_to_postgres has returned (line 316): the points of interest are
\* committed, none of them assigned
InitAssign ==
    /\ \E ls \in UNION {[1..k -> PoiLocations] : k \in 0..MaxPois} :
          tourist_attractions = PoiRecords(ls)
    /\ node_coords = <<>>
    /\ ways = <<>>
    /\ road_node_ids = {}
    /\ node_count = Len(tourist_attractions)
    /\ stream = NoStream
    /\ ToolsIdle
    /\ pc = "assign_update"
    /\ \E cs \in CityTables, old \in OldCounts :
          db0 = [FreshDb EXCEPT !.cities = cs, !.tourist_attractions_count = old]
    /\ db = [db0 EXCEPT !.tourist_attractions = AttractionRows(tourist_attractions)]
    /\ tx = db
    /\ buffer = <<>>
    /\ raised = "none"
    /\ out = OutBeforeSegments \o <<"Creating road segments...", "Created road segments">>
    /\ GraphIdle

NextAssign ==
    \/ AssignUpdate
    \/ AssignCounts
    \/ AssignCommit
    \/ AssignDbError
    \/ AssignAgain

SpecAssign == InitAssign /\ [][NextAssign]_vars

---------------------------------------------------------------------------
(* SpecTwice: import_to_postgres called again with the same handler, after *)
(* it returned or after create_road_segments raised.                       *)

MaxRuns == 2          \* calls of import_to_postgres

\* handler.ways after a pass over some of the kept ways of PipeWayInputs
TwiceWayLists ==
    LET kept == {w \in PipeWayInputs : w.tags["highway"] \in HIGHWAY_TYPES}
    IN  {<<>>} \cup {<<WayRecord(w)>> : w \in kept}
        \cup {<<WayRecord(p[1]), WayRecord(p[2])>> :
                 p \in {q \in kept \X kept : q[1].id < q[2].id}}

Runs ==
    LET IsRun(line) == line = "Clearing existing data..."
    IN  Len(SelectSeq(out, IsRun)) + (IF pc = "truncate" THEN 1 ELSE 0)

\* import_to_postgres has returned, or an exception has left it
ImportEnded == pc \in {"assign_update", "crashed"}

\* import_to_postgres(handler, conn) once more
ImportAgain ==
    /\ ImportEnded
    /\ Runs < MaxRuns
    /\ pc' = "truncate"
    /\ db0' = db
    /\ tx' = db
    /\ buffer' = <<>>
    /\ raised' = "none"
    /\ UNCHANGED <<toolVars, graphVars, handlerVars, db, out>>

InitTwice ==
    /\ ways \in TwiceWayLists
    /\ road_node_ids = UNION {Range(ways[k].node_ids) : k \in 1..Len(ways)}
    /\ \E S \in SUBSET road_node_ids : node_coords = [i \in S |-> NodeLocation(i)]
    /\ \E n \in 0..MaxPois :
          tourist_attractions = PoiRecords([k \in 1..n |-> NodeLocation(k)])
    /\ node_count = Cardinality(DOMAIN node_coords) + Len(tourist_attractions)
    /\ stream = NoStream
    /\ ToolsIdle
    /\ pc = "truncate"
    /\ db0 \in {FreshDb, PreviousDb}
    /\ db = db0
    /\ tx = db
    /\ buffer = <<>>
    /\ raised = "none"
    /\ out = <<"Parsing OSM file", "Reading OSM data...", "Extracted:",
               "Optimizing memory...", "Connecting to PostgreSQL">>
    /\ GraphIdle

NextTwice ==
    \/ Truncate
    \/ Commit1
    \/ SetMem
    \/ CopyNodes
    \/ CopyWays
    \/ CopyAttractions
    \/ Commit2
    \/ SynthesizeSegments
    \/ CopySegments
    \/ Commit3
    \/ ImportDbError
    \/ ImportAgain

SpecTwice == InitTwice /\ [][NextTwice]_vars


---------------------------------------------------------------------------
(* SpecCopy: the lines copy_to_table and create_road_segments write into   *)
(* their buffers, and the rows copy_from reads from them, for a point of   *)
(* interest and a way named by any text of CopyTexts.                      *)

MaxTextLen == 3       \* characters of a drawn text

CopyAlphabet == {"\\", "\t", "\n", "N", "'", "a"}

TomsDiner == <<"T", "o", "m", "'", "s", " ", "D", "i", "n", "e", "r">>

CopyTexts == UNION {[1..k -> CopyAlphabet] : k \in 0..MaxTextLen} \cup {TomsDiner}

\* the null string given to copy_from: lines 121, 158 and 219
CopyNull(table) ==
    CASE table = "osm_nodes" -> <<"\\", "N">>
      [] table = "tourist_attractions" -> <<"\\", "N">>
      [] table = "osm_ways" -> <<"\\", "N">>
      [] table = "road_segments" -> <<"\\", "N">>

\* the columns given to copy_from
CopyColumns(table) ==
    CASE table = "osm_nodes" -> <<"osm_id", "lat", "lon", "tags">>
      [] table = "tourist_attractions" -> <<"osm_id", "name", "tourism_type", "lat", "lon">>
      [] table = "osm_ways" -> <<"osm_id", "nodes", "tags">>
      [] table = "road_segments" ->
            <<"way_id", "start_node", "end_node", "name", "highway_type",
              "length_miles", "speed_mph", "travel_time_s", "oneway">>

\* str(highway) for a recognized highway type
HighwayText(h) ==
    CASE h = "motorway" -> <<"m", "o", "t", "o", "r", "w", "a", "y">>
      [] h = "motorway_link" -> <<"m", "o", "t", "o", "r", "w", "a", "y", "_", "l", "i", "n", "k">>
      [] h = "trunk" -> <<"t", "r", "u", "n", "k">>
      [] h = "trunk_link" -> <<"t", "r", "u", "n", "k", "_", "l", "i", "n", "k">>
      [] h = "primary" -> <<"p", "r", "i", "m", "a", "r", "y">>
      [] h = "primary_link" -> <<"p", "r", "i", "m", "a", "r", "y", "_", "l", "i", "n", "k">>
      [] h = "secondary" -> <<"s", "e", "c", "o", "n", "d", "a", "r", "y">>
      [] h = "secondary_link" ->
            <<"s", "e", "c", "o", "n", "d", "a", "r", "y", "_", "l", "i", "n", "k">>

\* str(b) of a bool
BoolText(b) == IF b THEN <<"T", "r", "u", "e">> ELSE <<"F", "a", "l", "s", "e">>

\* sep.join(fields)
RECURSIVE Join(_, _)
Join(fields, sep) ==
    IF fields = <<>> THEN <<>>
    ELSE IF Len(fields) = 1 THEN fields[1]
    ELSE fields[1] \o <<sep>> \o Join(Tail(fields), sep)

\* the line of a row written with no field escaped
CopyLine_Unescaped(row) == Join(row, "\t") \o <<"\n">>

\* copy_to_table, lines 117-118: the line of a row.  A field of the row is
\* None or the text str(v) of its value.
CopyLine(row) == Join([k \in 1..Len(row) |-> escape_tsv(row[k])], "\t") \o <<"\n">>

\* copy_to_table, lines 115-118: the buffer of the rows of data
RECURSIVE CopyBuffer(_)
CopyBuffer(data) ==
    IF data = <<>> THEN <<>> ELSE CopyLine(Head(data)) \o CopyBuffer(Tail(data))

\* lines 141-145: the tuples of road_nodes, each value as str gives it
NodeTuples(node_ids, coords) ==
    LET rows == RoadNodeRows(node_ids, coords)
    IN  [k \in 1..Len(rows) |->
            <<IntText(rows[k].osm_id), FloatText(Rat(rows[k].lat, 1000)),
              FloatText(Rat(rows[k].lon, 1000)), <<"{", "}">>>>]

\* line 89: the tuples of handler.tourist_attractions, each value as str
\* gives it; the name is a text or None
AttractionTuples(tas) ==
    [k \in 1..Len(tas) |->
        <<IntText(tas[k].osm_id), tas[k].name, TourismText(tas[k].tourism_type),
          FloatText(Rat(tas[k].lat, 1000)), FloatText(Rat(tas[k].lon, 1000))>>]

\* create_road_segments, lines 211-212: the line of the row r, whose name
\* is escaped already; a float is written with three decimals at most
SegmentLine(r) ==
    Join(<<IntText(r.way_id), IntText(r.start_node), IntText(r.end_node), r.name,
           HighwayText(r.highway_type), FloatText(r.length_miles), IntText(r.speed_mph),
           FloatText(r.travel_time_s), BoolText(r.oneway)>>, "\t") \o <<"\n">>

RECURSIVE SegmentLines(_)
SegmentLines(rows) ==
    IF rows = <<>> THEN <<>> ELSE SegmentLine(Head(rows)) \o SegmentLines(Tail(rows))

\* the pieces of s that end at the positions at, each without the
\* character there, and what follows the last position
PiecesAt(s, at) ==
    LET Nth(k) == CHOOSE i \in at : Cardinality({j \in at : j < i}) = k - 1
        From(k) == IF k = 1 THEN 1 ELSE Nth(k - 1) + 1
    IN  [lines |-> [k \in 1..Cardinality(at) |-> SubSeq(s, From(k), Nth(k) - 1)],
         rest |-> SubSeq(s, From(Cardinality(at) + 1), Len(s))]

\* the backslashes that stand immediately before position i of s
BackslashRun(s, i) ==
    CHOOSE k \in 0..(i - 1) :
        /\ \A j \in (i - k)..(i - 1) : s[j] = "\\"
        /\ k = i - 1 \/ s[i - k - 1] # "\\"

\* the positions of s where the separator sep stands unescaped: a backslash
\* takes the character after it with it, separator or not
Separators(s, sep) == {i \in 1..Len(s) : s[i] = sep /\ BackslashRun(s, i) % 2 = 0}

\* copy_from(buffer, table, columns, null): the rows the store reads from
\* the text, a field equal to the null string as NULL; a line with another
\* number of fields than columns is an error
CopyFrom(text, table) ==
    LET p == PiecesAt(text, Separators(text, "\n"))
        lines == IF p.rest = <<>> THEN p.lines ELSE Append(p.lines, p.rest)
        Field(f) == IF f = CopyNull(table) THEN NULL ELSE <<CopyDecode(f)>>
        Fields(line) == LET q == PiecesAt(line, Separators(line, "\t"))
                            raw == Append(q.lines, q.rest)
                        IN  [i \in 1..Len(raw) |-> Field(raw[i])]
        rows == [k \in 1..Len(lines) |-> Fields(lines[k])]
    IN  [error |-> \E k \in 1..Len(rows) : Len(rows[k]) # Len(CopyColumns(table)),
         rows |-> rows]

\* the buffer is written
CopyWrite(at, next, text) ==
    /\ pc = at
    /\ pc' = next
    /\ buffer' = text
    /\ out' = out \o LinesAt(at)
    /\ UNCHANGED <<toolVars, graphVars, handlerVars, dbVars, raised>>

\* copy_from reads the buffer into the table, or raises psycopg2.Error
CopyLoad(at, next, table) ==
    LET r == CopyFrom(buffer, table)
    IN  /\ pc = at
        /\ IF r.error
           THEN /\ pc' = "exit1"
                /\ raised' = "psycopg2.Error"
                /\ tx' = db
                /\ out' = out \o <<"Database error during import", "Database error">>
           ELSE /\ pc' = next
                /\ raised' = raised
                /\ tx' = [tx EXCEPT ![table] = @ \o r.rows]
                /\ out' = out
        /\ UNCHANGED <<toolVars, graphVars, handlerVars, db0, db, buffer>>

\* copy_to_table on road_nodes, lines 115-118 and 120-121
WriteNodes == CopyWrite("copy_nodes", "load_nodes", CopyBuffer(NodeTuples(road_node_ids, node_coords)))
LoadNodes == CopyLoad("load_nodes", "copy_ways", "osm_nodes")

\* copy_to_table on handler.tourist_attractions
WriteAttractions ==
    CopyWrite("copy_attractions", "load_attractions",
              CopyBuffer(AttractionTuples(tourist_attractions)))
LoadAttractions == CopyLoad("load_attractions", "commit2", "tourist_attractions")

\* create_road_segments, lines 184-213 and 215-219
WriteSegments ==
    /\ SegmentBuffer(ways, node_coords).raised = "none"
    /\ CopyWrite("segments", "load_segments",
                 SegmentLines(SegmentBuffer(ways, node_coords).rows))
LoadSegments == CopyLoad("load_segments", "commit3", "road_segments")

\* the text the point of interest and the way are named by
NameDrawn == tourist_attractions[1].name

InitCopy ==
    /\ \E v \in CopyTexts \cup {None} :
          /\ tourist_attractions =
                <<[osm_id |-> 1, name |-> v, tourism_type |-> "museum",
                   lat |-> NodeLocation(1)[1], lon |-> NodeLocation(1)[2]]>>
          /\ ways = <<[id |-> 101, node_ids |-> <<1, 2, 1>>, highway |-> "motorway",
                       name |-> (IF v = None THEN <<>> ELSE v), oneway |-> FALSE,
                       maxspeed |-> <<>>]>>
    /\ road_node_ids = {1, 2}
    /\ node_coords = [i \in road_node_ids |-> NodeLocation(i)]
    /\ node_count = 2
    /\ stream = NoStream
    /\ ToolsIdle
    /\ pc = "copy_nodes"
    /\ db0 = FreshDb
    /\ db = db0
    /\ tx = db
    /\ buffer = <<>>
    /\ raised = "none"
    /\ out = <<"Parsing OSM file", "Reading OSM data...", "Extracted:",
               "Optimizing memory...", "Connecting to PostgreSQL",
               "Clearing existing data...", "Disabling indexes for bulk import...">>
    /\ GraphIdle

NextCopy ==
    \/ WriteNodes
    \/ LoadNodes
    \/ CopyWays
    \/ WriteAttractions
    \/ LoadAttractions
    \/ Commit2
    \/ WriteSegments
    \/ LoadSegments
    \/ Commit3

SpecCopy == InitCopy /\ [][NextCopy]_vars


---------------------------------------------------------------------------
(* SpecOrder: the extraction pass and the reclamation on a file fixed in   *)
(* advance, whose entities apply_file hands over in any order.             *)

\* one way 104 for each highway type, for two values that are none, and
\* without a highway tag
ClassWays ==
    {[id |-> 104, nodes |-> <<2, 2, 1>>, tags |-> t] :
        t \in {("highway" :> h) : h \in HIGHWAY_TYPES \cup {"residential", "Motorway"}}
              \cup {EmptyTags, ("name" :> RoadName)}}

\* the files: at most one point entity for each node identifier, and some
\* of the ways of PipeWayInputs or one of ClassWays
OrderStreams ==
    {{<<"node", n>> : n \in ns} \cup {<<"way", w>> : w \in ws} :
        ns \in {x \in SUBSET NodeInputs : \A a, b \in x : a.id = b.id => a = b},
        ws \in SUBSET PipeWayInputs \cup {{w} : w \in ClassWays}}

\* apply_file hands a pending point entity to OSMHandler.node
ReadPendingNode ==
    \E e \in stream.pending :
        /\ e[1] = "node"
        /\ pc = "extract"
        /\ HandlerNode(e[2])
        /\ stream' = [stream EXCEPT !.pending = @ \ {e}]
        /\ UNCHANGED <<toolVars, graphVars, runVars, dbVars, buffer>>

\* apply_file hands a pending line entity to OSMHandler.way
ReadPendingWay ==
    \E e \in stream.pending :
        /\ e[1] = "way"
        /\ pc = "extract"
        /\ HandlerWay(e[2])
        /\ stream' = [stream EXCEPT !.pending = @ \ {e}]
        /\ UNCHANGED <<toolVars, graphVars, runVars, dbVars, buffer>>

\* apply_file returns when the file is exhausted
EndOfStream ==
    /\ stream.pending = {}
    /\ EndOfFile

InitOrder ==
    /\ HandlerInit
    /\ \E f \in OrderStreams : stream = [all |-> f, pending |-> f]
    /\ pc = "extract"
    /\ db0 = FreshDb
    /\ db = db0
    /\ tx = db
    /\ buffer = <<>>
    /\ raised = "none"
    /\ out = <<"Parsing OSM file", "Reading OSM data...">>
    /\ GraphIdle
    /\ ToolsIdle

NextOrder ==
    \/ ReadPendingNode
    \/ ReadPendingWay
    \/ EndOfStream
    \/ Reclaim

SpecOrder == InitOrder /\ [][NextOrder]_vars


---------------------------------------------------------------------------
(* Properties of create_road_segments. *)

\* the loop of create_road_segments has run, to its end or to an exception
SynthDone == "Creating road segments..." \in Range(out)

PythonErrors == {"ZeroDivisionError", "OverflowError"}

\* the (start, end) pairs written for the way id, in the order written
PairsWritten(id) ==
    LET OfWay(r) == r.way_id = id
        rows == SelectSeq(buffer, OfWay)
    IN  [i \in 1..Len(rows) |-> <<rows[i].start_node, rows[i].end_node>>]

\* the consecutive pairs of w whose two ends have coordinates, in list order
PairsWithCoords(w, coords) ==
    LET Has(i) == w.node_ids[i] \in DOMAIN coords /\ w.node_ids[i + 1] \in DOMAIN coords
        idx == SelectSeq([i \in 1..(Len(w.node_ids) - 1) |-> i], Has)
    IN  [j \in 1..Len(idx) |-> <<w.node_ids[idx[j]], w.node_ids[idx[j] + 1]>>]

AllPairs(w) == [i \in 1..(Len(w.node_ids) - 1) |-> <<w.node_ids[i], w.node_ids[i + 1]>>]

HasAllCoords(w) == \A i \in 1..Len(w.node_ids) : w.node_ids[i] \in DOMAIN node_coords

WayOf(id) == CHOOSE w \in Range(ways) : w.id = id

\* the raw speed string is not empty and gives no integer: no token, a token
\* float() rejects, or a float int() rejects
CannotParse(maxspeed_str) ==
    LET toks == Split(Strip(Replace(maxspeed_str, <<"m", "p", "h">>, <<>>)))
    IN  /\ maxspeed_str # <<>>
        /\ toks = <<>> \/ ParseFloat(toks[1]).kind # "finite"

\* C1: the speed a travel time is computed from is strictly positive, so the
\* division never divides by zero, and a positive length never gets a
\* travel time that is zero or negative.
C1_SpeedPositive ==
    SynthDone =>
        /\ raised # "ZeroDivisionError"
        /\ \A k \in 1..Len(buffer) :
              /\ buffer[k].speed_mph > 0
              /\ buffer[k].length_miles.n > 0 => buffer[k].travel_time_s.n > 0

\* C4: a raw speed string that gives no integer never makes speed resolution
\* raise: the run goes on, and the rows of the way carry the default speed
\* of its highway category.
C4_UnparseableFallsBack ==
    SynthDone =>
        /\ raised # "OverflowError"
        /\ \A k \in 1..Len(buffer) :
              CannotParse(WayOf(buffer[k].way_id).maxspeed) =>
                  buffer[k].speed_mph = DEFAULT_SPEEDS(buffer[k].highway_type)

\* C7: every row written has travel_time_s = length_miles / speed_mph * 3600
\* for the speed_mph of the same row, which is the speed resolved for its way;
\* so has every row of road_segments loaded from the buffer.
RowTimeMatches(r) ==
    /\ r.speed_mph # 0
    /\ Rat(r.travel_time_s.n * r.speed_mph, r.travel_time_s.d)
         = Rat(r.length_miles.n * 3600, r.length_miles.d)

C7_TravelTimeFormula ==
    /\ \A k \in 1..Len(buffer) :
          /\ RowTimeMatches(buffer[k])
          /\ LET w == WayOf(buffer[k].way_id)
             IN  buffer[k].speed_mph = ResolveSpeed(w.highway, w.maxspeed).speed
    /\ \A k \in 1..Len(tx.road_segments) : RowTimeMatches(tx.road_segments[k])

\* C7 witness: rows are loaded whose speed was parsed from the speed string
\* and is not the default of the category, one of them of positive length
C7_Witness ==
    /\ pc = "commit3"
    /\ \E k \in 1..Len(tx.road_segments) :
          /\ tx.road_segments[k].speed_mph # DEFAULT_SPEEDS(tx.road_segments[k].highway_type)
          /\ tx.road_segments[k].length_miles.n > 0

\* C9: a way whose nodes all have coordinates gets exactly its n-1
\* consecutive pairs, in list order (none for fewer than 2 nodes), and the
\* synthesis raises nothing.
C9_OneSegmentPerPair ==
    SynthDone =>
        \A k \in 1..Len(ways) :
            HasAllCoords(ways[k]) =>
                /\ raised \notin PythonErrors
                /\ PairsWritten(ways[k].id) = AllPairs(ways[k])

\* C10: a pair is written if and only if both its ends have coordinates;
\* a skipped pair raises nothing and stops neither the later pairs of its
\* way nor the later ways.
C10_PairWrittenIffCoords ==
    SynthDone =>
        /\ raised \notin PythonErrors
        /\ \A k \in 1..Len(ways) :
              PairsWritten(ways[k].id) = PairsWithCoords(ways[k], node_coords)

\* What C9 and C10 say holds of every synthesis that raises nothing.
PairsWrittenUnlessRaised ==
    (SynthDone /\ raised \notin PythonErrors) =>
        \A k \in 1..Len(ways) :
            PairsWritten(ways[k].id) = PairsWithCoords(ways[k], node_coords)

\* An exception leaves create_road_segments only for a speed string that
\* gives 0 or an infinite float.
RaisedOnlyBySpeed ==
    (SynthDone /\ raised \in PythonErrors) =>
        \E k \in 1..Len(ways) :
            LET sp == ResolveSpeed(ways[k].highway, ways[k].maxspeed)
            IN  sp.raised = "OverflowError" \/ sp.speed = 0


---------------------------------------------------------------------------
(* Properties of the extraction pass and the reclamation. *)

\* the reclamation has run
Reclaimed == "Optimizing memory..." \in Range(out)

\* the identifiers in the node lists of the kept ways
Referenced == UNION {Range(ways[k].node_ids) : k \in 1..Len(ways)}

\* the step of main that replaces node_coords by its filtered copy
ReclaimStep == pc = "reclaim" /\ pc' = "connect"

\* C5: after the reclamation every identifier in the node list of a kept way
\* has an entry in node_coords.
C5_EveryReferencedHasEntry ==
    Reclaimed => \A id \in Referenced : id \in DOMAIN node_coords

\* C5 as amended: the reclamation keeps the entry, with its coordinates, of
\* every identifier in the node list of a kept way that had one when the pass
\* ended; an identifier that no point entity of the stream carried has none.
C5_ReferencedEntriesKept ==
    [][ReclaimStep =>
          \A id \in Referenced :
              id \in DOMAIN node_coords =>
                  (id \in DOMAIN node_coords' /\ node_coords'[id] = node_coords[id])]_vars

\* C5 witness: after the reclamation one way references a node that kept its
\* entry and a node that no point entity carried
C5_Witness ==
    /\ Reclaimed
    /\ \E k \in 1..Len(ways) :
          /\ Range(ways[k].node_ids) \cap DOMAIN node_coords # {}
          /\ Range(ways[k].node_ids) \ DOMAIN node_coords # {}

\* C6: the needed set is always the union of the node lists of the kept ways,
\* and the reclamation leaves exactly the recorded identifiers that are in it,
\* with the needed set as it was.
C6_KeptIffNeeded ==
    /\ [](road_node_ids = Referenced)
    /\ [][ReclaimStep =>
            /\ DOMAIN node_coords' = DOMAIN node_coords \cap road_node_ids
            /\ road_node_ids' = road_node_ids
            /\ ways' = ways]_vars

\* C6 witness: after the reclamation the entry of a needed node is kept and
\* the recorded node of a point of interest, which no way needs, has lost its
\* entry
C6_Witness ==
    /\ Reclaimed
    /\ DOMAIN node_coords # {}
    /\ \E k \in 1..Len(tourist_attractions) :
          /\ tourist_attractions[k].osm_id \notin DOMAIN node_coords
          /\ tourist_attractions[k].osm_id \notin road_node_ids

---------------------------------------------------------------------------
(* Properties of the whole run. *)

\* the four tables of the import
ImportTables(t) ==
    [osm_nodes |-> t.osm_nodes, osm_ways |-> t.osm_ways,
     tourist_attractions |-> t.tourist_attractions, road_segments |-> t.road_segments]

\* the same with the assignment of the points of interest blanked
Unassigned(t) ==
    [t EXCEPT !.tourist_attractions =
        [k \in 1..Len(@) |-> [@[k] EXCEPT !.nearest_city_id = NULL]]]

\* the complete contents a run on the handler's data loads
NewTables ==
    [osm_nodes |-> RoadNodeRows(road_node_ids, node_coords),
     osm_ways |-> WayRows(ways),
     tourist_attractions |-> AttractionRows(tourist_attractions),
     road_segments |-> StoredSegments(SegmentBuffer(ways, node_coords).rows)]

\* C2: the committed tables hold their complete contents of before the run
\* or the complete contents the run loads, in every state.
C2_ClearAndLoadAtomic ==
    \/ ImportTables(db) = ImportTables(db0)
    \/ Unassigned(ImportTables(db)) = NewTables

\* the transaction holds a node, way or point of interest this run loaded
\* (the earlier import's identifiers are 8, 9 and 90)
RunRecordLoaded ==
    \/ \E k \in 1..Len(tx.osm_nodes) : tx.osm_nodes[k].osm_id \in NodeIds
    \/ \E k \in 1..Len(tx.osm_ways) : tx.osm_ways[k].osm_id > 100
    \/ \E k \in 1..Len(tx.tourist_attractions) : tx.tourist_attractions[k].osm_id \in NodeIds

\* the transaction holds a segment this run loaded
RunSegmentLoaded == \E k \in 1..Len(tx.road_segments) : tx.road_segments[k].way_id > 100

AggregationStarted ==
    "Assigning tourist attractions to nearest cities..." \in Range(out)

StageOrder ==
    <<"Reading OSM data...", "Extracted:", "Optimizing memory...",
      "Connecting to PostgreSQL", "Clearing existing data...",
      "Importing road nodes...", "Importing ways...", "Importing tourist attractions...",
      "Creating road segments...", "Created road segments",
      "Assigning tourist attractions to nearest cities...",
      "Calculating city tourist attraction statistics...", "Import complete!">>

IsStage(line) == line \in Range(StageOrder)

---------------------------------------------------------------------------
(* Properties of the graph builders. *)

\* the properties of the ROAD edges of the two backends
RoadEdgeProps ==
    {age.edges[k].properties : k \in {j \in 1..Len(age.edges) : age.edges[j].label = "ROAD"}}
        \cup {arango.roads[k] : k \in 1..Len(arango.roads)}

ExactTime(e) ==
    RatMul(RatDiv(e.length_miles, IntToRat(e.speed_mph)), IntToRat(3600))

---------------------------------------------------------------------------
(* Properties of the error handling and of the order of the writes. *)

BulkInserts == {"copy_nodes", "copy_ways", "copy_attractions", "copy_segments"}

\* the rows of d in the table the bulk insert at the statement `at` fills
TableOf(d, at) ==
    CASE at = "copy_nodes" -> d.osm_nodes
      [] at = "copy_ways" -> d.osm_ways
      [] at = "copy_attractions" -> d.tourist_attractions
      [] at = "copy_segments" -> d.road_segments

\* a bulk insert of import_to_postgres raises a database error
InsertFails == pc \in BulkInserts /\ raised' = "psycopg2.Error"

\* C11: when a bulk insert raises a database error the transaction is rolled
\* back (it shows the committed tables again, which hold no row of the table
\* being inserted), the error reaches main, which exits with status 1, and
\* no step follows: neither the segment creation nor the aggregation runs.
C11_InsertErrorRollsBack ==
    /\ [][InsertFails =>
            /\ tx' = db
            /\ db' = db
            /\ TableOf(db', pc) = <<>>
            /\ pc' = "exit1"
            /\ (pc # "copy_segments" => ~SynthDone')
            /\ ~AggregationStarted']_vars
    /\ [][pc # "exit1"]_vars

\* C11 witness: the insert of the ways has failed after the nodes were
\* inserted; the run has ended and the committed osm_nodes is empty
C11_Witness ==
    /\ pc = "exit1"
    /\ raised = "psycopg2.Error"
    /\ out[Len(out) - 2] = "Importing ways..."
    /\ RoadNodeRows(road_node_ids, node_coords) # <<>>
    /\ db.osm_nodes = <<>>
    /\ tx = db

\* C12: the store is not written, not even cleared, before the extraction
\* pass and the reclamation have ended: until then the committed tables and
\* the connection's view are those of the start of the run, also when the
\* run is interrupted during the extraction.
C12_NoWriteBeforeReclaimed ==
    /\ [](~Reclaimed => (db = db0 /\ tx = db0))
    /\ [](raised = "KeyboardInterrupt" => ~Reclaimed)
    /\ [][(db' # db \/ tx' # tx) => Reclaimed]_vars

\* C12 witness: a run on a store that holds an earlier import was interrupted
\* after it had read a node and kept a way; the store is as it was
C12_Witness ==
    /\ pc = "crashed"
    /\ raised = "KeyboardInterrupt"
    /\ node_count > 0
    /\ ways # <<>>
    /\ db0 = PreviousDb
    /\ db = PreviousDb

---------------------------------------------------------------------------
(* Properties of assign_tourist_attractions_to_cities. *)

\* a call of assign_tourist_attractions_to_cities commits
AssignCommits == pc = "assign_commit" /\ pc' = "done"

\* C13: a second call in succession, on the same points of interest and
\* cities, commits the assignments and the summary rows the first call
\* committed, also when a point of interest is equally near to two cities.
C13_SecondCallChangesNothing ==
    [][(AssignCommits /\ Calls >= 2) =>
          /\ db'.tourist_attractions = db.tourist_attractions
          /\ db'.tourist_attractions_count = db.tourist_attractions_count]_vars

\* the point of interest ta is equally near to two cities that are nearest
Tied(ta, cities) == Cardinality(NearestCityIds(ta, cities)) > 1

\* What C13 says holds of every store in which no point of interest is
\* equally near to two nearest cities.
SecondCallSameWithoutTies ==
    [][(AssignCommits /\ Calls >= 2
          /\ \A k \in 1..Len(db.tourist_attractions) :
                ~Tied(db.tourist_attractions[k], db.cities)) =>
          /\ db'.tourist_attractions = db.tourist_attractions
          /\ db'.tourist_attractions_count = db.tourist_attractions_count]_vars

\* the points of interest of the table set t are assigned as C14 says
NearestAssigned(t) ==
    \A k \in 1..Len(t.tourist_attractions) :
        LET ta == t.tourist_attractions[k]
        IN  /\ t.cities # {} => ta.nearest_city_id # NULL
            /\ ta.nearest_city_id # NULL =>
                  \E c \in t.cities :
                      /\ ta.nearest_city_id = <<c.id>>
                      /\ \A d \in t.cities : SqDist(ta, c) <= SqDist(ta, d)

\* C14: after assign_tourist_attractions_to_cities every point of interest
\* has a city whose squared coordinate difference to it is minimal over all
\* cities, and none is left without a city when there is a city: in the
\* transaction after the UPDATE and in the committed tables after the call.
C14_AssignedToNearest ==
    /\ pc \in {"assign_counts", "assign_commit"} => NearestAssigned(tx)
    /\ (pc = "done" /\ Calls >= 1) => NearestAssigned(db)

\* C14 witness: a call has committed; the point of interest at (34.0, -86.9)
\* has the second city, one at the first city has the first
C14_Witness ==
    /\ pc = "done"
    /\ Cardinality(db.cities) = 2
    /\ \E k \in 1..Len(db.tourist_attractions) :
          /\ db.tourist_attractions[k].lat = 34000
          /\ db.tourist_attractions[k].lon = -86900
          /\ db.tourist_attractions[k].nearest_city_id = <<2>>
    /\ \E k \in 1..Len(db.tourist_attractions) :
          /\ db.tourist_attractions[k].lat = 34730
          /\ db.tourist_attractions[k].nearest_city_id = <<1>>

\* the sum of the counts of the summary rows of the cities ids
RECURSIVE SumCounts(_, _)
SumCounts(counts, ids) ==
    IF ids = {} THEN 0
    ELSE LET i == CHOOSE x \in ids : TRUE
         IN  counts[i].count + SumCounts(counts, ids \ {i})

\* the points of interest of t assigned to the city id
AssignedTo(t, id) ==
    {k \in 1..Len(t.tourist_attractions) : t.tourist_attractions[k].nearest_city_id = <<id>>}

\* every city of t has its summary row, which counts its points of interest
RowPerCity(t) ==
    \A c \in t.cities :
        /\ c.id \in DOMAIN t.tourist_attractions_count
        /\ t.tourist_attractions_count[c.id].count = Cardinality(AssignedTo(t, c.id))
        /\ t.tourist_attractions_count[c.id].per_capita
             = Rat(Cardinality(AssignedTo(t, c.id)) * 10000, c.population)

\* C15: after assign_tourist_attractions_to_cities every city has exactly
\* one summary row, also a city without points of interest; its count is the
\* number of points of interest assigned to the city; and the counts of all
\* cities sum to the number of points of interest.
C15_CountsSumToTotal ==
    (pc = "done" /\ Calls >= 1) =>
        /\ RowPerCity(db)
        /\ SumCounts(db.tourist_attractions_count, {c.id : c \in db.cities})
             = Len(db.tourist_attractions)

\* C15 as amended: every city has its one summary row with the number of
\* points of interest assigned to it; the counts of all cities sum to the
\* number of assigned points of interest, which is the number of all points
\* of interest when there is a city (without a city there is no row to sum).
C15_CountsSumToAssigned ==
    (pc = "done" /\ Calls >= 1) =>
        /\ RowPerCity(db)
        /\ SumCounts(db.tourist_attractions_count, {c.id : c \in db.cities})
             = Cardinality({k \in 1..Len(db.tourist_attractions) :
                              db.tourist_attractions[k].nearest_city_id # NULL})
        /\ db.cities # {} =>
              SumCounts(db.tourist_attractions_count, {c.id : c \in db.cities})
                = Len(db.tourist_attractions)

\* C15 witness: a call has committed with two cities and two points of
\* interest, both at the second city; the first city has a row of count 0
\* where an earlier import had left count 1
C15_Witness ==
    /\ pc = "done"
    /\ Cardinality(db.cities) = 2
    /\ Len(db.tourist_attractions) = 2
    /\ db0.tourist_attractions_count = PreviousDb.tourist_attractions_count
    /\ db.tourist_attractions_count[1].count = 0
    /\ db.tourist_attractions_count[2].count = 2

---------------------------------------------------------------------------
(* Properties of a repeated import. *)

\* C16: when import_to_postgres has run twice in succession with the same
\* extracted data, each of osm_nodes, osm_ways, tourist_attractions and
\* road_segments holds the rows it held after the first run, none twice.
C16_SecondRunSameRows ==
    (ImportEnded /\ Runs >= 2) =>
        /\ ImportTables(db) = ImportTables(db0)
        /\ pc = "assign_update" => ImportTables(db) = NewTables

\* C16 witness: the second run has returned and every table holds rows
C16_Witness ==
    /\ pc = "assign_update"
    /\ Runs = 2
    /\ Len(db.osm_nodes) = 2
    /\ Len(db.osm_ways) = 1
    /\ Len(db.tourist_attractions) = 2
    /\ Len(db.road_segments) = 1
    /\ ImportTables(db0) = ImportTables(db)

---------------------------------------------------------------------------
(* Properties of the lines written for COPY. *)

\* the occurrences of the character c in s
Count(s, c) == Cardinality({i \in 1..Len(s) : s[i] = c})

\* the pieces of s that end at a character c
Pieces(s, c) == PiecesAt(s, {i \in 1..Len(s) : s[i] = c})

\* the lines of a text, each without its newline
PlainLines(s) == Pieces(s, "\n")

\* the fields of a line: what stands between its tabs
PlainFields(s) == LET p == Pieces(s, "\t") IN Append(p.lines, p.rest)

\* v with each tab and newline as one space and each backslash twice
RECURSIVE Neutralized(_)
Neutralized(v) ==
    IF v = <<>> THEN <<>>
    ELSE (CASE Head(v) = "\\" -> <<"\\", "\\">>
            [] Head(v) \in {"\t", "\n"} -> <<" ">>
            [] OTHER -> <<Head(v)>>) \o Neutralized(Tail(v))

\* the table whose buffer has been written, the rows it was written from
\* and the position of the name among the columns (0: no name)
Written ==
    CASE pc = "load_nodes" ->
            [table |-> "osm_nodes", rows |-> Cardinality(road_node_ids), name |-> 0]
      [] pc = "load_attractions" ->
            [table |-> "tourist_attractions", rows |-> Len(tourist_attractions), name |-> 2]
      [] pc = "load_segments" ->
            [table |-> "road_segments", rows |-> Len(ways[1].node_ids) - 1, name |-> 4]

\* C17: every line that copy_to_table and create_road_segments write has a
\* tab less than the table has columns and ends with its one newline,
\* whatever tabs, newlines and backslashes the name holds; in the line the
\* name has one space for each tab and newline and each backslash twice.
C17_LinesHaveColumnsMinusOneTabs ==
    pc \in {"load_nodes", "load_attractions", "load_segments"} =>
        LET p == PlainLines(buffer)
        IN  /\ p.rest = <<>>
            /\ Len(p.lines) = Written.rows
            /\ \A k \in 1..Len(p.lines) :
                  /\ Count(p.lines[k], "\t") = Len(CopyColumns(Written.table)) - 1
                  /\ (Written.name # 0 /\ NameDrawn # None) =>
                        PlainFields(p.lines[k])[Written.name] = Neutralized(NameDrawn)

\* C17 witness: the two segment lines of a way whose name is a backslash, a
\* tab and a newline are written: the name reads backslash, backslash,
\* space, space
C17_Witness ==
    /\ pc = "load_segments"
    /\ ways[1].name = <<"\\", "\t", "\n">>
    /\ Count(buffer, "\n") = 2
    /\ PlainFields(PlainLines(buffer).lines[1])[4] = <<"\\", "\\", " ", " ">>

\* the tables filled by copy_from
BulkTables == {"osm_nodes", "osm_ways", "tourist_attractions", "road_segments"}

\* copy_from has read the line of the point of interest
AttractionLoaded == pc \in {"commit2", "segments", "load_segments", "commit3", "assign_update"}

\* copy_from has read the lines of the segments
SegmentsLoaded == pc \in {"commit3", "assign_update"}

\* C18: escape_tsv returns backslash-N exactly for None: no text, the text
\* backslash-N included, is written as backslash-N or read back as NULL;
\* and backslash-N is the null string of every copy_from.
C18_SentinelOnlyForNone ==
    /\ escape_tsv(NameDrawn) = <<"\\", "N">> <=> NameDrawn = None
    /\ \A t \in BulkTables : CopyNull(t) = escape_tsv(None)
    /\ AttractionLoaded => (tx.tourist_attractions[1][2] = NULL <=> NameDrawn = None)

\* C18 witness: the point of interest named backslash-N is read back with
\* its name, not NULL
C18_Witness ==
    /\ AttractionLoaded
    /\ NameDrawn = <<"\\", "N">>
    /\ escape_tsv(NameDrawn) = <<"\\", "\\", "N">>
    /\ tx.tourist_attractions[1][2] = <<NameDrawn>>

---------------------------------------------------------------------------
(* Properties of the order of the entities. *)

\* the point entities and the kept line entities of a file
FileNodes(f) == {e[2] : e \in {x \in f : x[1] = "node"}}
FileRoads(f) ==
    {w \in {e[2] : e \in {x \in f : x[1] = "way"}} :
        TagGet(w.tags, "highway", NoTag) \in HIGHWAY_TYPES}

\* what the pass is to extract from the file f, told without an order
FileCoords(f) ==
    [i \in {n.id : n \in FileNodes(f)} |->
        LET n == CHOOSE x \in FileNodes(f) : x.id = i IN <<n.lat, n.lon>>]
FileNeeded(f) == UNION {Range(w.nodes) : w \in FileRoads(f)}
FileWays(f) == {WayRecord(w) : w \in FileRoads(f)}

\* the way records of f by ascending identifier
RECURSIVE WaysById(_)
WaysById(ws) ==
    IF ws = {} THEN <<>>
    ELSE LET m == CHOOSE x \in ws : \A y \in ws : x.id <= y.id
         IN  <<m>> \o WaysById(ws \ {m})

\* C20: whatever the order in which the entities of a file arrive, after
\* the pass the coordinate map, the needed set and the set of the kept ways
\* are those of the file, and so are, after the reclamation, the kept
\* coordinates and the segments create_road_segments writes from them.
C20_OrderDoesNotMatter ==
    /\ pc = "reclaim" =>
          /\ node_coords = FileCoords(stream.all)
          /\ road_node_ids = FileNeeded(stream.all)
          /\ Range(ways) = FileWays(stream.all)
          /\ Len(ways) = Cardinality(FileWays(stream.all))
    /\ pc = "connect" =>
          /\ node_coords = ReclaimedCoords(FileCoords(stream.all), FileNeeded(stream.all))
          /\ road_node_ids = FileNeeded(stream.all)
          /\ Range(ways) = FileWays(stream.all)
          /\ LET got == SegmentBuffer(ways, node_coords)
                 sorted == SegmentBuffer(WaysById(FileWays(stream.all)), node_coords)
             IN  /\ got.raised = "none" <=> sorted.raised = "none"
                 /\ got.raised = "none" => BagOfSeq(got.rows) = BagOfSeq(sorted.rows)

\* C20 witness: a file of the way 101 between the nodes 1 and 2 and of
\* both nodes has been read in one of its orders; both coordinates are kept
\* and the way gives its segment
C20_Witness ==
    /\ pc = "connect"
    /\ Cardinality(stream.all) = 3
    /\ Len(ways) = 1
    /\ ways[1].node_ids = <<1, 2>>
    /\ DOMAIN node_coords = {1, 2}
    /\ Len(SegmentBuffer(ways, node_coords).rows) = 1

---------------------------------------------------------------------------
(* Properties of OSMHandler.way. *)

\* the entity handed over in this step
Handed == stream.pending \ stream'.pending

\* C21: a line entity is kept exactly when its highway tag is one of the
\* eight recognized classes, and the node list kept for it is the entity's
\* reference list, element by element, repetitions included.
C21_KeptIffRecognized ==
    /\ [][\A e \in Handed : e[1] = "way" =>
            IF "highway" \in DOMAIN e[2].tags
               /\ e[2].tags["highway"] \in
                    {"motorway", "motorway_link", "trunk", "trunk_link",
                     "primary", "primary_link", "secondary", "secondary_link"}
            THEN /\ Len(ways') = Len(ways) + 1
                 /\ SubSeq(ways', 1, Len(ways)) = ways
                 /\ ways'[Len(ways')].id = e[2].id
                 /\ Len(ways'[Len(ways')].node_ids) = Len(e[2].nodes)
                 /\ \A i \in 1..Len(e[2].nodes) :
                       ways'[Len(ways')].node_ids[i] = e[2].nodes[i]
            ELSE ways' = ways]_vars
    /\ [][Handed = {} => ways' = ways]_vars

\* C21 witness: of the file of the residential way 103 and the primary way
\* 102 through the nodes 2, 1, 2 only the latter is kept, with its list
C21_Witness ==
    /\ pc = "reclaim"
    /\ {e[2].id : e \in stream.all} = {102, 103}
    /\ Len(ways) = 1
    /\ ways[1].id = 102
    /\ ways[1].node_ids = <<2, 1, 2>>

---------------------------------------------------------------------------
(* Properties of the direction of the segments. *)

\* the rows of the buffer written for the way id
RowsOfWay(id) == LET OfWay(r) == r.way_id = id IN SelectSeq(buffer, OfWay)

\* the one-way flag of a way record is true exactly for the tag value yes
FlagIsYes ==
    \A w \in PipeWayInputs \cup ClassWays :
        WayRecord(w).oneway <=> ("oneway" \in DOMAIN w.tags /\ w.tags["oneway"] = "yes")

\* the rows written for the way w are its pairs with coordinates, each once
\* and first to second, and carry the flag of w
OnceAndForward(w) ==
    /\ PairsWritten(w.id) = PairsWithCoords(w, node_coords)
    /\ \A i \in 1..Len(RowsOfWay(w.id)) : RowsOfWay(w.id)[i].oneway = w.oneway

\* C22: create_road_segments writes each consecutive pair of a way (whose
\* ends have coordinates) exactly once, first node to second node and never
\* the reverse, one-way or not; every row carries the way's one-way flag,
\* which is true exactly when the oneway tag is yes.
C22_EachPairOnceForward ==
    /\ FlagIsYes
    /\ SynthDone => \A k \in 1..Len(ways) : OnceAndForward(ways[k])

\* What C22 says holds of every synthesis that raises nothing.
OnceForwardUnlessRaised ==
    /\ FlagIsYes
    /\ (SynthDone /\ raised \notin PythonErrors) =>
          \A k \in 1..Len(ways) : OnceAndForward(ways[k])

---------------------------------------------------------------------------
(* Properties of the two graphs. *)

\* the ROAD edges of the AGE graph as (from, to, metrics), the ends named
\* by the osm_id of their Intersection nodes
AgeRoads ==
    LET idx == SelectSeq([j \in 1..Len(age.edges) |-> j],
                         LAMBDA j : age.edges[j].label = "ROAD")
    IN  [k \in 1..Len(idx) |->
            LET e == age.edges[idx[k]]
            IN  [from |-> age.vertices[e.start_id].properties.osm_id,
                 to |-> age.vertices[e.end_id].properties.osm_id,
                 name |-> e.properties.name,
                 highway_type |-> e.properties.highway_type,
                 length_miles |-> e.properties.length_miles,
                 speed_mph |-> e.properties.speed_mph,
                 travel_time_s |-> e.properties.travel_time_s]]

\* the osm_id of the intersection document a handle names
OsmIdOf(handle) ==
    LET k == CHOOSE j \in 1..Len(arango.intersections) :
                 Collection("intersections") \o arango.intersections[j]._key = handle
    IN  arango.intersections[k].osm_id

\* the edges of the collection roads in the same form
ArangoRoadsFlat ==
    [k \in 1..Len(arango.roads) |->
        LET e == arango.roads[k]
        IN  [from |-> OsmIdOf(e._from), to |-> OsmIdOf(e._to), name |-> e.name,
             highway_type |-> e.highway_type, length_miles |-> e.length_miles,
             speed_mph |-> e.speed_mph, travel_time_s |-> e.travel_time_s]]

\* the edge of the road r from a to b
RoadFromTo(r, a, b) ==
    [from |-> a, to |-> b, name |-> r.name, highway_type |-> r.htype,
     length_miles |-> IntToRat(r.length_miles), speed_mph |-> r.speed_mph,
     travel_time_s |-> IntToRat(r.travel_s)]

\* the edges es are the two directions of every road, and nothing else
BothDirections(es) ==
    /\ Len(es) = 2 * Len(ROADS)
    /\ \A k \in 1..Len(ROADS) :
          /\ Cardinality({j \in 1..Len(es) :
                es[j] = RoadFromTo(ROADS[k], ROADS[k].start, ROADS[k].end)}) = 1
          /\ Cardinality({j \in 1..Len(es) :
                es[j] = RoadFromTo(ROADS[k], ROADS[k].end, ROADS[k].start)}) = 1
    /\ \A j \in 1..Len(es) :
          \E i \in 1..Len(es) : es[i] = [es[j] EXCEPT !.from = es[j].to, !.to = es[j].from]

\* C23: when a builder has ended, its graph holds for every road (a, b) of
\* ROADS one ROAD edge from a to b and one from b to a, with the road's
\* name, highway type, length, speed and travel time; every ROAD edge has
\* its reverse with the same metrics and there are twice as many as roads.
C23_RoadsBothWays ==
    /\ age_pc = "done" => BothDirections(AgeRoads)
    /\ arango_pc = "done" => BothDirections(ArangoRoadsFlat)

\* C23 witness: both builders have ended and each graph holds the edge of
\* I-65 from 1002 to 1001, the reverse of the first road
C23_Witness ==
    /\ age_pc = "done"
    /\ arango_pc = "done"
    /\ \E j \in 1..Len(AgeRoads) : AgeRoads[j] = RoadFromTo(ROADS[1], 1002, 1001)
    /\ \E j \in 1..Len(ArangoRoadsFlat) : ArangoRoadsFlat[j] = RoadFromTo(ROADS[1], 1002, 1001)

\* the Intersection nodes of the AGE graph and the intersection documents
AgeIntersections ==
    {[osm_id |-> v.properties.osm_id, lat |-> v.properties.lat, lon |-> v.properties.lon] :
        v \in {x \in Range(age.vertices) : x.label = "Intersection"}}
ArangoIntersectionSet ==
    {[osm_id |-> d.osm_id, lat |-> d.lat, lon |-> d.lon] : d \in Range(arango.intersections)}

\* the NEAREST_INTERSECTION edges of the AGE graph as (city key,
\* intersection, distance), and those of the collection nearest_intersection
AgeNearest ==
    LET idx == SelectSeq([j \in 1..Len(age.edges) |-> j],
                         LAMBDA j : age.edges[j].label = "NEAREST_INTERSECTION")
    IN  [k \in 1..Len(idx) |->
            LET e == age.edges[idx[k]]
            IN  [city |-> CityKey(age.vertices[e.start_id].properties.name),
                 to |-> age.vertices[e.end_id].properties.osm_id,
                 distance_miles |-> e.properties.distance_miles]]
ArangoNearestFlat ==
    [k \in 1..Len(arango.nearest_intersection) |->
        LET e == arango.nearest_intersection[k]
        IN  [city |-> SubSeq(e._from, Len(Collection("cities")) + 1, Len(e._from)),
             to |-> OsmIdOf(e._to),
             distance_miles |-> e.distance_miles]]

\* the keys of the city documents
CityKeys == {d._key : d \in Range(arango.cities)}

\* C24: when both builders have ended on the same cities table, the two
\* graphs hold the same intersections, the same ROAD edges and the same
\* NEAREST_INTERSECTION edges, whatever the cities table holds.
C24_BackendsAgree ==
    (age_pc = "done" /\ arango_pc = "done") =>
        /\ AgeIntersections = ArangoIntersectionSet
        /\ BagOfSeq(AgeRoads) = BagOfSeq(ArangoRoadsFlat)
        /\ BagOfSeq(AgeNearest) = BagOfSeq(ArangoNearestFlat)

\* What C24 says holds of the intersections, of the ROAD edges and of the
\* NEAREST_INTERSECTION edges that start at a city of the cities table.
BackendsAgreeOnCitiesPresent ==
    (age_pc = "done" /\ arango_pc = "done") =>
        /\ AgeIntersections = ArangoIntersectionSet
        /\ BagOfSeq(AgeRoads) = BagOfSeq(ArangoRoadsFlat)
        /\ BagOfSeq(AgeNearest)
             = BagOfSeq(SelectSeq(ArangoNearestFlat, LAMBDA e : e.city \in CityKeys))

(***************************************************************************)
(* verify_graphs.py: main compares the statistics get_age_stats and        *)
(* get_arango_stats gathered.  Lengths are in thousandths of a mile.       *)
(***************************************************************************)
\* the import and the graph builders are not running
ImportIdle ==
    /\ HandlerInit
    /\ stream = NoStream
    /\ pc = "start"
    /\ db0 = PreviousDb
    /\ db = db0
    /\ tx = db
    /\ buffer = <<>>
    /\ raised = "none"
    /\ out = <<>>

CountKeys == <<"cities", "intersections", "roads", "nearest_intersection">>

\* stats['test_path_hsv_bhm']: never set, an error, or the best path
NoPath == [kind |-> "none"]
PathError == [kind |-> "error"]
Path(hops, minutes) == [kind |-> "path", hops |-> hops, minutes |-> minutes]

\* stats['city_names'] = [c['name'] for c in city_data]
city_names(stats) == [i \in 1..Len(stats.city_data) |-> stats.city_data[i].name]

SumSeq(s) == LET RECURSIVE Go(_)
                 Go(i) == IF i = 0 THEN 0 ELSE s[i] + Go(i - 1)
             IN  Go(Len(s))

\* sum(r['miles'] for r in samples) / len(samples)
avg_miles(samples) == Rat(SumSeq(samples), 1000 * Len(samples))

\* abs(age_avg_miles - arango_avg_miles) / age_avg_miles if age_avg_miles > 0 else 0
miles_diff(age_avg, arango_avg) ==
    IF age_avg.n > 0
    THEN RatDiv(Rat(Abs(age_avg.n * arango_avg.d - arango_avg.n * age_avg.d),
                    age_avg.d * arango_avg.d), age_avg)
    ELSE Rat(0, 1)

\* the statistics the runs are checked on
StatCounts ==
    { [cities |-> 2, intersections |-> 8, roads |-> 18, nearest_intersection |-> n] : n \in {2, 5} }
StatCities ==
    { <<[name |-> "Birmingham", population |-> 200733, tourist_attractions |-> 1],
        [name |-> "Huntsville", population |-> 215006, tourist_attractions |-> 1]>>,
      <<[name |-> "Birmingham", population |-> 200733, tourist_attractions |-> 0],
        [name |-> "Huntsville", population |-> 215006, tourist_attractions |-> 1]>>,
      <<[name |-> "Huntsville", population |-> 215006, tourist_attractions |-> 1],
        [name |-> "Birmingham", population |-> 200733, tourist_attractions |-> 1]>> }
StatRoads == { <<>>, <<1000, 2000>>, <<2000, 1000>>, <<1000, 2010>>, <<1000, 2100>> }
StatPaths == { NoPath, PathError, Path(3, 95), Path(4, 95) }
Stats ==
    { [cities |-> c.cities, intersections |-> c.intersections, roads |-> c.roads,
       nearest_intersection |-> c.nearest_intersection,
       city_data |-> d, road_samples |-> r, test_path_hsv_bhm |-> p] :
        c \in StatCounts, d \in StatCities, r \in StatRoads, p \in StatPaths }

VerifyStep(at, next, match, lines) ==
    /\ verify.pc = at
    /\ verify' = [verify EXCEPT !.pc = next,
                                !.all_match = @ /\ match,
                                !.out = @ \o lines]
    /\ UNCHANGED <<importVars, graphVars, compare, download>>

\* lines 229-241: the four counts
VerifyCounts ==
    LET match(key) == verify.age_stats[key] = verify.arango_stats[key]
    IN  VerifyStep("counts", "city_names",
                   \A i \in 1..Len(CountKeys) : match(CountKeys[i]),
                   [i \in 1..Len(CountKeys) |->
                       <<CountKeys[i], IF match(CountKeys[i]) THEN "YES" ELSE "NO">>])

\* lines 243-252: the city names
VerifyCityNames ==
    LET cities_match == city_names(verify.age_stats) = city_names(verify.arango_stats)
    IN  VerifyStep("city_names", "city_data", cities_match,
                   <<<<"City Names", IF cities_match THEN "MATCH" ELSE "MISMATCH">>>>)

\* lines 254-267: the city data
VerifyCityData ==
    LET city_data_match == verify.age_stats.city_data = verify.arango_stats.city_data
    IN  VerifyStep("city_data", "road_samples", city_data_match,
                   <<<<"City Data Properties", IF city_data_match THEN "MATCH" ELSE "MISMATCH">>>>)

\* lines 269-286: the sampled road lengths; no branch assigns all_match
VerifyRoadSamples ==
    LET age_samples == verify.age_stats.road_samples
        arango_samples == verify.arango_stats.road_samples
    IN  VerifyStep("road_samples", "path", TRUE,
            <<<<"Road Segment Data Quality",
                IF age_samples # <<>> /\ arango_samples # <<>>
                THEN IF RatLess(miles_diff(avg_miles(age_samples), avg_miles(arango_samples)),
                                Rat(1, 100))
                     THEN "MATCH"
                     ELSE "WARNING"
                ELSE "SKIP">>>>)

\* lines 288-313: the traversal from Huntsville to Birmingham
VerifyPath ==
    LET age_path == verify.age_stats.test_path_hsv_bhm
        arango_path == verify.arango_stats.test_path_hsv_bhm
        status ==
            IF age_path.kind = "error" THEN "ERROR"
            ELSE IF arango_path.kind = "error" THEN "ERROR"
            ELSE IF age_path.kind = "path" /\ arango_path.kind = "path"
                 THEN IF age_path.hops = arango_path.hops
                         /\ age_path.minutes = arango_path.minutes
                      THEN "MATCH"
                      ELSE "MISMATCH"
                 ELSE "SKIP"
    IN  VerifyStep("path", "final", status = "MATCH", <<<<"Graph Traversal Test", status>>>>)

\* lines 315-347: the verdict and the exit status
VerifyFinal ==
    /\ verify.pc = "final"
    /\ verify' = [verify EXCEPT
           !.pc = "exited",
           !.out = @ \o <<<<"Final", IF verify.all_match THEN "VERIFICATION PASSED"
                                                        ELSE "VERIFICATION FAILED">>>>,
           !.exit = IF verify.all_match THEN 0 ELSE 1]
    /\ UNCHANGED <<importVars, graphVars, compare, download>>

\* a run after lines 219-227: the statistics gathered, all_match = True
InitVerify ==
    /\ ImportIdle
    /\ GraphIdle
    /\ compare = NotStarted
    /\ download = NotStarted
    /\ \E a \in Stats, b \in Stats :
          verify = [pc |-> "counts", age_stats |-> a, arango_stats |-> b,
                    all_match |-> TRUE, out |-> <<>>, exit |-> -1]

NextVerify ==
    \/ VerifyCounts
    \/ VerifyCityNames
    \/ VerifyCityData
    \/ VerifyRoadSamples
    \/ VerifyPath
    \/ VerifyFinal

SpecVerify == InitVerify /\ [][NextVerify]_vars

Exited == verify.pc = "exited"
Passed == Exited /\ verify.exit = 0 /\ verify.out[Len(verify.out)][2] = "VERIFICATION PASSED"
Failed == Exited /\ verify.exit = 1 /\ verify.out[Len(verify.out)][2] = "VERIFICATION FAILED"

CountsMatch == \A i \in 1..Len(CountKeys) :
                   verify.age_stats[CountKeys[i]] = verify.arango_stats[CountKeys[i]]
NamesMatch == city_names(verify.age_stats) = city_names(verify.arango_stats)
DataMatch == verify.age_stats.city_data = verify.arango_stats.city_data
\* the comparison of the sampled road lengths is made when both sides have samples
RoadsCompared == verify.age_stats.road_samples # <<>> /\ verify.arango_stats.road_samples # <<>>
RoadsMatch == RatLess(miles_diff(avg_miles(verify.age_stats.road_samples),
                                 avg_miles(verify.arango_stats.road_samples)), Rat(1, 100))
PathsMatch == /\ verify.age_stats.test_path_hsv_bhm.kind = "path"
              /\ verify.age_stats.test_path_hsv_bhm = verify.arango_stats.test_path_hsv_bhm

\* C25: a run ends with VERIFICATION PASSED and exit status 0 only if the
\* four counts, the city names, the city data, the sampled road lengths and
\* the Huntsville-to-Birmingham traversal all matched; a mismatch, an error
\* or a missing path in one of them gives VERIFICATION FAILED and status 1.
C25_PassedOnlyIfAllMatched ==
    Exited =>
        IF /\ CountsMatch /\ NamesMatch /\ DataMatch /\ PathsMatch
           /\ (RoadsCompared => RoadsMatch)
        THEN Passed
        ELSE Failed

\* the same verdict with the sampled road lengths left out of it
PassedIffAllButRoadsMatched ==
    Exited =>
        IF CountsMatch /\ NamesMatch /\ DataMatch /\ PathsMatch
        THEN Passed
        ELSE Failed

(***************************************************************************)
(* benchmark_queries.py: compare_results on the rows of a Cypher query and *)
(* of an AQL query.  A cell is a number (an exact rational), a string or   *)
(* None; an agtype value of AGE is the text str() gives for it.            *)
(***************************************************************************)
MaxRows == 4          \* rows of one query result
MaxTextRows == 3      \* rows of a query result when a result holds a string

Num(q) == [num |-> TRUE, val |-> q, text |-> <<>>]
Str(t) == [num |-> FALSE, val |-> Rat(0, 1), text |-> t]

\* s.strip('"')
RECURSIVE StripQuotes(_)
StripQuotes(s) ==
    IF s # <<>> /\ Head(s) = "\"" THEN StripQuotes(Tail(s))
    ELSE IF s # <<>> /\ s[Len(s)] = "\"" THEN StripQuotes(SubSeq(s, 1, Len(s) - 1))
    ELSE s

\* lines 283-298
normalize_value(val) ==
    IF val = None THEN Str(None)
    ELSE LET val_str == StripQuotes(val)
             f == ParseFloat(val_str)
             body == IF val_str # <<>> /\ Head(val_str) \in {"+", "-"}
                     THEN Tail(val_str) ELSE val_str
         IN  IF IndexOf(val_str, ".") # 0
             THEN IF f.kind = "finite" THEN Num(f.val) ELSE Str(val_str)
             ELSE IF body # <<>> /\ AllDigits(body) THEN Num(f.val) ELSE Str(val_str)

\* lines 301-310, for an AQL result that is a dict and column_names given
normalize_result(result, db_type, column_names) ==
    IF db_type = "cypher"
    THEN [i \in 1..Len(result) |-> normalize_value(result[i])]
    ELSE [i \in 1..Len(column_names) |->
             IF column_names[i] \in DOMAIN result THEN result[column_names[i]]
             ELSE Str(None)]

\* lines 322-323
sort_key(row) == [j \in 1..Len(row) |-> IF row[j].num THEN row[j].val ELSE Rat(0, 1)]

\* the order of Python's tuples of numbers
TupleLess(a, b) ==
    \E i \in 1..(Len(a) + 1) :
        /\ i <= Len(b)
        /\ \A j \in 1..(i - 1) : a[j] = b[j]
        /\ i = Len(a) + 1 \/ RatLess(a[i], b[i])

\* sorted(rows, key=sort_key) without the sorting: the rows as they came
sorted_KeepsOrder(rows) == rows

\* sorted(rows, key=sort_key): stable, rows of equal keys keep their order
sorted(rows) ==
    LET RECURSIVE Go(_)
        Go(n) ==
            IF n = 0 THEN <<>>
            ELSE LET done == Go(n - 1)
                     at == Cardinality({i \in 1..Len(done) :
                               ~TupleLess(sort_key(rows[n]), sort_key(done[i]))})
                 IN  SubSeq(done, 1, at) \o <<rows[n]>> \o SubSeq(done, at + 1, Len(done))
    IN  Go(Len(rows))

\* abs(float(c_val) - float(a_val)) > 0.01
Differs(c_val, a_val) ==
    Abs(c_val.n * a_val.d - a_val.n * c_val.d) * 100 > c_val.d * a_val.d

\* lines 313-338: <<verdict, message>>
compare_results(cypher_results, aql_results, column_names) ==
    IF Len(cypher_results) # Len(aql_results) THEN <<FALSE, "Row count mismatch">>
    ELSE LET cypher_normalized == [i \in 1..Len(cypher_results) |->
                 normalize_result(cypher_results[i], "cypher", column_names)]
             aql_normalized == [i \in 1..Len(aql_results) |->
                 normalize_result(aql_results[i], "aql", column_names)]
             cypher_sorted == sorted(cypher_normalized)
             aql_sorted == sorted(aql_normalized)
             compare_count == IF Len(cypher_sorted) < 3 THEN Len(cypher_sorted) ELSE 3
             message(i) ==
                 LET c_row == cypher_sorted[i]
                     a_row == aql_sorted[i]
                 IN  IF Len(c_row) # Len(a_row) THEN "Row column count differs"
                     ELSE IF \E j \in 1..Len(c_row) :
                                 /\ c_row[j].num /\ a_row[j].num
                                 /\ Differs(c_row[j].val, a_row[j].val)
                          THEN "Row col differs"
                          ELSE "Results match"
             bad == {i \in 1..compare_count : message(i) # "Results match"}
         IN  IF bad = {} THEN <<TRUE, "Results match">>
             ELSE <<FALSE, message(CHOOSE i \in bad : \A k \in bad : i <= k)>>

\* the results the comparison is checked on: one column of miles
column_names == <<"miles">>
AgtypeCells == { <<"0">>, <<"0", ".", "0", "1", "6">>, <<"\"", "s", "\"">> }
AqlCells == { Num(Rat(8, 1000)), Num(Rat(30, 1000)), Str(<<"s">>) }
SeqsUpTo(S, n) == UNION { [1..k -> S] : k \in 0..n }
CypherResults == SeqsUpTo({ <<v>> : v \in AgtypeCells }, MaxRows)
AqlResults == SeqsUpTo({ [miles |-> v] : v \in AqlCells }, MaxRows)

Swapped(rows, i) == [rows EXCEPT ![i] = rows[i + 1], ![i + 1] = rows[i]]

\* line 501: the call
CompareResults ==
    /\ compare.pc = "called"
    /\ compare' = [compare EXCEPT
           !.pc = "returned",
           !.result = compare_results(compare.cypher_results, compare.aql_results,
                                      column_names)]
    /\ UNCHANGED <<importVars, graphVars, verify, download>>

\* the call again, on the same rows with two neighbours of one result swapped
ComparePermuted ==
    /\ compare.pc = "returned"
    /\ \E side \in {"cypher_results", "aql_results"} :
       \E i \in 1..(Len(compare[side]) - 1) :
          LET rows == [compare EXCEPT ![side] = Swapped(@, i)]
          IN  compare' = [rows EXCEPT
                  !.result = compare_results(rows.cypher_results, rows.aql_results,
                                             column_names)]
    /\ UNCHANGED <<importVars, graphVars, verify, download>>

InitCompare ==
    /\ ImportIdle
    /\ GraphIdle
    /\ verify = NotStarted
    /\ download = NotStarted
    /\ \E c \in CypherResults, a \in AqlResults :
          /\ Len(c) = Len(a) \/ Len(c) + Len(a) <= MaxTextRows
          /\ \/ Len(c) <= MaxTextRows
             \/ /\ \A i \in 1..Len(c) : normalize_value(c[i][1]).num
                /\ \A i \in 1..Len(a) : a[i].miles.num
          /\ compare = [pc |-> "called", cypher_results |-> c, aql_results |-> a,
                        result |-> <<FALSE, "">>]

NextCompare == CompareResults \/ ComparePermuted

SpecCompare == InitCompare /\ [][NextCompare]_vars

CypherRows == [i \in 1..Len(compare.cypher_results) |->
                  normalize_result(compare.cypher_results[i], "cypher", column_names)]
AqlRows == [i \in 1..Len(compare.aql_results) |->
               normalize_result(compare.aql_results[i], "aql", column_names)]
Returned == compare.pc = "returned"
Match == compare.result[1]

\* every column of the rows holds numbers in all of them or in none
Homogeneous(rows) ==
    \A i, k \in 1..Len(rows) :
        \A j \in 1..Len(rows[i]) : j <= Len(rows[k]) => rows[i][j].num = rows[k][j].num

\* the i-th row in the order of the numeric cells, whatever order the rows came in
NthRow(rows, i) ==
    CHOOSE r \in Range(rows) :
        /\ Cardinality({k \in 1..Len(rows) : TupleLess(sort_key(rows[k]), sort_key(r))}) < i
        /\ i <= Cardinality({k \in 1..Len(rows) : ~TupleLess(sort_key(r), sort_key(rows[k]))})

RowsWithin(c_row, a_row) ==
    /\ Len(c_row) = Len(a_row)
    /\ \A j \in 1..Len(c_row) :
          c_row[j].num /\ a_row[j].num => ~Differs(c_row[j].val, a_row[j].val)

\* the first n rows of the two results agree, row order disregarded
FirstWithin(n) ==
    /\ Len(CypherRows) = Len(AqlRows)
    /\ \A i \in 1..Len(CypherRows) :
          i <= n => RowsWithin(NthRow(CypherRows, i), NthRow(AqlRows, i))

\* C26: compare_results reports a match exactly when the results have the
\* same number of rows and, row order disregarded, the numeric cells of every
\* pair of corresponding rows differ by at most 0.01; the verdict is the same
\* when rows of either result are permuted.
C26_MatchIffAllRowsWithinTolerance ==
    /\ [](Returned /\ Homogeneous(CypherRows) /\ Homogeneous(AqlRows)
            => (Match <=> FirstWithin(Len(CypherRows))))
    /\ [][Returned /\ compare'.pc = "returned" => compare'.result[1] = Match]_vars

\* C26 as the code has it: only the first three rows in the order of the
\* numeric cells are compared, and the verdict is the same for every order of
\* the rows when each column holds numbers in all rows or in none.
C26_MatchIffFirstThreeWithinTolerance ==
    /\ [](Returned /\ Homogeneous(CypherRows) /\ Homogeneous(AqlRows)
            => (Match <=> FirstWithin(3)))
    /\ [][Returned /\ compare'.pc = "returned"
            /\ Homogeneous(CypherRows) /\ Homogeneous(AqlRows)
            => compare'.result[1] = Match]_vars

\* four rows that came unsorted, the first three pairs within 0.01 and the
\* fourth pair 0.014 apart: a match
C26_Witness ==
    /\ Returned
    /\ Match
    /\ Len(compare.cypher_results) = MaxRows
    /\ Homogeneous(CypherRows) /\ Homogeneous(AqlRows)
    /\ CypherRows[1] = <<Num(Rat(16, 1000))>>
    /\ AqlRows[1] = <<Num(Rat(30, 1000))>>
    /\ \E i \in 1..Len(CypherRows) : CypherRows[i] = <<Num(Rat(0, 1))>>

(***************************************************************************)
(* osm_download.py: download_alabama, its recursion on retry_count         *)
(* unfolded.  attempts counts the calls of urlopen.                        *)
(***************************************************************************)
MAX_RETRIES == 3
MaxChunks == 2        \* chunks of one response

\* the status codes the Overpass server answers with in the runs checked
HttpCodes == {429, 408, 504, 400, 404, 500}

DownloadUnchanged == UNCHANGED <<importVars, graphVars, verify, compare>>

\* lines 68-83: the query is sent; urlopen returns a response or raises
Urlopen ==
    /\ download.pc = "urlopen"
    /\ \/ \E n \in 0..MaxChunks :
             download' = [download EXCEPT !.pc = "read", !.attempts = @ + 1,
                                          !.chunks = n, !.downloaded = 0]
       \/ \E code \in HttpCodes :
             download' = [download EXCEPT !.pc = "HTTPError", !.attempts = @ + 1,
                                          !.code = code]
       \/ \E e \in {"URLError", "TimeoutError", "uncaught"} :
             download' = [download EXCEPT !.pc = e, !.attempts = @ + 1]
    /\ DownloadUnchanged

\* lines 89-103: one chunk is read and written, or the read raises
ReadChunk ==
    /\ download.pc = "read"
    /\ download.chunks > 0
    /\ \/ download' = [download EXCEPT !.chunks = @ - 1, !.downloaded = @ + 1]
       \/ \E e \in {"TimeoutError", "uncaught"} : download' = [download EXCEPT !.pc = e]
    /\ DownloadUnchanged

\* lines 92-93, 105-111: the empty chunk ends the loop and the call returns
DownloadComplete ==
    /\ download.pc = "read"
    /\ download.chunks = 0
    /\ download' = [download EXCEPT !.pc = "exited", !.exit = 0,
                                    !.out = Append(@, "Download complete!")]
    /\ DownloadUnchanged

\* the retry test as retry_count <= MAX_RETRIES: one call more
RetryOrExit_OneMore(message) ==
    IF download.retry_count <= MAX_RETRIES
    THEN download' = [download EXCEPT !.pc = "urlopen", !.retry_count = @ + 1,
                                      !.out = Append(@, "Retrying")]
    ELSE download' = [download EXCEPT !.pc = "exited", !.exit = 1,
                                      !.out = Append(@, message)]

\* lines 118-124, 128-134, 146-152, 157-163: the call again after the wait,
\* or exit status 1
RetryOrExit(message) ==
    IF download.retry_count < MAX_RETRIES
    THEN download' = [download EXCEPT !.pc = "urlopen", !.retry_count = @ + 1,
                                      !.out = Append(@, "Retrying")]
    ELSE download' = [download EXCEPT !.pc = "exited", !.exit = 1,
                                      !.out = Append(@, message)]

\* lines 113-141
HandleHTTPError ==
    /\ download.pc = "HTTPError"
    /\ IF download.code = 429
       THEN RetryOrExit("Max retries exceeded. Please try again later.")
       ELSE IF download.code \in {408, 504}
            THEN RetryOrExit("Max retries exceeded due to timeouts.")
            ELSE IF download.code = 400
                 THEN download' = [download EXCEPT !.pc = "exited", !.exit = 1,
                          !.out = Append(@, "Bad request - query may be malformed.")]
                 ELSE download' = [download EXCEPT !.pc = "exited", !.exit = 1]
    /\ DownloadUnchanged

\* lines 143-152
HandleURLError ==
    /\ download.pc = "URLError"
    /\ RetryOrExit("Max retries exceeded due to network errors.")
    /\ DownloadUnchanged

\* lines 154-163
HandleTimeoutError ==
    /\ download.pc = "TimeoutError"
    /\ RetryOrExit("Max retries exceeded due to timeouts.")
    /\ DownloadUnchanged

\* an exception no except clause of lines 113-163 names: the traceback
Uncaught ==
    /\ download.pc = "uncaught"
    /\ download' = [download EXCEPT !.pc = "exited", !.exit = 1,
                                    !.out = Append(@, "Traceback")]
    /\ DownloadUnchanged

\* line 171: download_alabama(output_path), retry_count = 0
InitDownload ==
    /\ ImportIdle
    /\ GraphIdle
    /\ verify = NotStarted
    /\ compare = NotStarted
    /\ download = [pc |-> "urlopen", retry_count |-> 0, attempts |-> 0, code |-> 0,
                   chunks |-> 0, downloaded |-> 0, out |-> <<>>, exit |-> -1]

NextDownload ==
    \/ Urlopen
    \/ ReadChunk
    \/ DownloadComplete
    \/ HandleHTTPError
    \/ HandleURLError
    \/ HandleTimeoutError
    \/ Uncaught

\* the interpreter runs the next statement; urlopen, read and sleep return
SpecDownload == InitDownload /\ [][NextDownload]_vars /\ WF_vars(NextDownload)

Retried == download'.pc = "urlopen" /\ download.pc # "urlopen"
Failure == download.pc \in {"HTTPError", "URLError", "TimeoutError", "uncaught"}

\* C27: download_alabama terminates, with at most MAX_RETRIES + 1 = 4
\* attempts across all error kinds; it retries only after HTTP 429, 408 or
\* 504, a URL error or a timeout; HTTP 400 and every other status end the run
\* with exit status 1 without a retry; and with the retry budget used up the
\* next failure ends the run with exit status 1.
C27_TerminatesWithinFourAttempts ==
    /\ <>(download.pc = "exited")
    /\ [](download.attempts <= MAX_RETRIES + 1 /\ MAX_RETRIES + 1 = 4)
    /\ [][Retried => \/ download.pc \in {"URLError", "TimeoutError"}
                     \/ download.pc = "HTTPError" /\ download.code \in {429, 408, 504}]_vars
    /\ [][download.pc = "HTTPError" /\ download.code \notin {429, 408, 504}
            => download'.pc = "exited" /\ download'.exit = 1]_vars
    /\ [][Failure /\ download.retry_count = MAX_RETRIES
            => download'.pc = "exited" /\ download'.exit = 1]_vars

\* a run that retried three times and ended with exit status 1 when its
\* fourth attempt failed with a URL error
C27_Witness ==
    /\ download.pc = "exited"
    /\ download.exit = 1
    /\ download.attempts = MAX_RETRIES + 1
    /\ download.retry_count = MAX_RETRIES
    /\ download.out = <<"Retrying", "Retrying", "Retrying",
                        "Max retries exceeded due to network errors.">>

(***************************************************************************)
(* SpecRebuild: each graph builder run again after it is done, on the      *)
(* same tables.  The lines of the runs follow each other on the terminal.  *)
(***************************************************************************)
MaxBuilds == 2        \* runs of one builder

\* build_graph.py is started again
AgeAgain ==
    /\ age_pc = "done"
    /\ Count(age_out, "Done!") < MaxBuilds
    /\ age_pc' = "start"
    /\ UNCHANGED <<age, age_k, age_out, arangoVars, importVars, toolVars>>

\* build_graph_arango.py is started again
ArangoAgain ==
    /\ arango_pc = "done"
    /\ Count(arango_out, "Done!") < MaxBuilds
    /\ arango_pc' = "start"
    /\ UNCHANGED <<arango, arango_out, ageVars, importVars, toolVars>>

InitRebuild == InitGraph

NextRebuild == NextGraph \/ AgeAgain \/ ArangoAgain

SpecRebuild == InitRebuild /\ [][NextRebuild]_vars

\* the graph the statements of one build make of the tables d where no graph was
AgeBuiltOnce(d) ==
    LET cities == [k \in 1..Len(CityRows(d)) |-> AgeCityNode(CityRows(d)[k])]
        intersections == [k \in 1..Len(INTERSECTIONS) |->
                             AgeIntersectionNode(INTERSECTIONS[k])]
        nodes == [EmptyGraph EXCEPT !.vertices = cities \o intersections]
        RECURSIVE Roads(_)
        Roads(k) == IF k = 0 THEN nodes ELSE AgeRoadStatement(Roads(k - 1), k)
        RECURSIVE Nearest(_)
        Nearest(k) == IF k = 0 THEN Roads(2 * Len(ROADS))
                      ELSE AgeNearestStatement(Nearest(k - 1), k)
    IN  Nearest(Len(CITY_CONNECTIONS))

\* the collections one build fills from the tables d where they were empty
ArangoBuiltOnce(d) ==
    [cities |-> InsertMany(<<>>, [k \in 1..Len(CityRows(d)) |-> CityDoc(CityRows(d)[k])]),
     intersections |-> InsertMany(<<>>, [k \in 1..Len(INTERSECTIONS) |->
                                            IntersectionDoc(INTERSECTIONS[k])]),
     roads |-> RoadEdges,
     nearest_intersection |-> ConnEdges]

NoDuplicate(s) == \A i, k \in 1..Len(s) : s[i] = s[k] => i = k

\* C28: a builder that is done, for the first time or after a rebuild, has
\* left the graph one build makes of the tables, whatever was there before,
\* and no node or edge is in it twice.
C28_RebuildLeavesSameGraph ==
    /\ age_pc = "done" =>
          /\ age = AgeBuiltOnce(db)
          /\ NoDuplicate(age.vertices) /\ NoDuplicate(age.edges)
    /\ arango_pc = "done" =>
          /\ arango = ArangoBuiltOnce(db)
          /\ \A c \in DOMAIN arango : NoDuplicate(arango[c])

\* both builders are done for the second time
C28_Witness ==
    /\ age_pc = "done"
    /\ Count(age_out, "Done!") = 2
    /\ Count(age_out, "Dropping existing graph...") >= 1
    /\ arango_pc = "done"
    /\ Count(arango_out, "Done!") = 2

\* a committed point of interest has a nearest city
SomeAssigned(t) ==
    \E k \in 1..Len(t.tourist_attractions) : t.tourist_attractions[k].nearest_city_id # NULL

\* C29: the assignments and the summary rows are committed together or not at
\* all: a committed state with assignments has the summary rows that count
\* them; the committed state changes only at the commit, to the transaction's
\* state with both; and when a statement raises psycopg2.Error the transaction
\* is rolled back to the committed state and the error goes on to the caller.
C29_AssignmentsAndSummaryTogether ==
    /\ [](SomeAssigned(db) => RowPerCity(db))
    /\ [][db' # db => (pc = "assign_commit" /\ db' = tx /\ RowPerCity(db'))]_vars
    /\ [][pc' = "exit1" /\ pc \in {"assign_counts", "assign_commit"}
            => (raised' = "psycopg2.Error" /\ db' = db /\ tx' = db /\
                (Calls = 1 => ~SomeAssigned(db')))]_vars

\* the first call has failed after its update assigned two points of interest
\* to cities: nothing of it is committed and the error is raised
C29_Witness ==
    /\ pc = "exit1"
    /\ raised = "psycopg2.Error"
    /\ Calls = 1
    /\ out[Len(out) - 2] = "Calculating city tourist attraction statistics..."
    /\ Len(db.tourist_attractions) = 2
    /\ db.cities # {}
    /\ ~SomeAssigned(db)
    /\ tx = db

(***************************************************************************)
(* SpecCypher: build_graph.py on a cities table whose first city has a     *)
(* name of apostrophes, backslashes, dollar signs and letters.             *)
(***************************************************************************)
MaxNameLen == 3       \* characters of a city name

NameAlphabet == {"'", "\\", "$", "a"}
NameTexts == UNION { [1..k -> NameAlphabet] : k \in 0..MaxNameLen }

InitCypher ==
    /\ HandlerInit
    /\ stream = NoStream
    /\ ToolsIdle
    /\ pc = "start"
    /\ \E n \in NameTexts :
          LET named == {IF c.id = 1 THEN [c EXCEPT !.name = n] ELSE c : c \in Cities}
          IN  db0 = [PreviousDb EXCEPT !.cities = named]
    /\ db = db0
    /\ tx = db
    /\ buffer = <<>>
    /\ raised = "none"
    /\ out = <<>>
    /\ age_pc = "start"
    /\ age_k = 0
    /\ age \in {NoGraph, EarlierAge}
    /\ age_out = <<>>
    /\ arango_pc = "start"
    /\ arango = EmptyArango
    /\ arango_out = <<>>

NextCypher ==
    \/ AgeConnect
    \/ AgeDropGraph
    \/ AgeCreateGraph
    \/ AgeCreateCities
    \/ AgeCreateIntersections
    \/ AgeCreateRoads
    \/ AgeConnectCities
    \/ AgeFinish
    \/ AgeDbError

SpecCypher == InitCypher /\ [][NextCypher]_vars

\* the first single-quoted literal of a Cypher text: what stands before it,
\* its text between the quotes, what stands after it, and whether it is closed
Literal(text) ==
    LET quotes == {i \in 1..Len(text) : text[i] = "'"}
        open == CHOOSE i \in quotes : \A k \in quotes : i <= k
        RECURSIVE Close(_)
        Close(i) == IF i > Len(text) THEN 0
                    ELSE IF text[i] = "\\" THEN Close(i + 2)
                    ELSE IF text[i] = "'" THEN i
                    ELSE Close(i + 1)
        close == Close(open + 1)
    IN  IF quotes = {} \/ close = 0
        THEN [closed |-> FALSE, before |-> <<>>, text |-> <<>>, after |-> <<>>]
        ELSE [closed |-> TRUE, before |-> SubSeq(text, 1, open - 1),
              text |-> SubSeq(text, open + 1, close - 1),
              after |-> SubSeq(text, close + 1, Len(text))]

\* the statement of the row reaches cypher() whole, is the statement of any
\* other name outside its literal, and its literal reads as the row's name
NameInsideLiteral(row) ==
    LET query == CityQuery(row)
        other == Literal(CityQuery([row EXCEPT !.name = <<"a">>]))
        lit == Literal(DollarQuoted(execute_cypher(query)).body)
    IN  /\ Received(query)
        /\ lit.closed
        /\ lit.before = other.before
        /\ lit.after = other.after
        /\ CypherString(lit.text) = row.name

Stored(row) ==
    \E i \in 1..Len(age.vertices) :
        /\ age.vertices[i].label = "City"
        /\ age.vertices[i].properties.id = row.city_id
        /\ age.vertices[i].properties.name = row.name

HasDollars(name) == \E i \in 1..(Len(name) - 1) : name[i] = "$" /\ name[i + 1] = "$"

\* C30: for every city name the statement the builder sends differs from the
\* statement of any other name inside the quoted literal only: no apostrophe,
\* backslash or pair of dollar signs of the name ends the literal or the
\* dollar-quoted block early, and the name stored in the graph is the name.
C30_NameStaysInsideLiteral ==
    \A k \in 1..Len(CityRows(db)) :
        /\ NameInsideLiteral(CityRows(db)[k])
        /\ age_pc = "done" => Stored(CityRows(db)[k])
        /\ age_pc = "cities" /\ age_k >= k => Stored(CityRows(db)[k])

\* the same for the names without a pair of dollar signs; with one the
\* statement is refused and the run ends with exit status 1
NameStaysInsideLiteralUnlessDollars ==
    \A k \in 1..Len(CityRows(db)) :
        IF HasDollars(CityRows(db)[k].name)
        THEN /\ ~Received(CityQuery(CityRows(db)[k]))
             /\ age_pc # "done"
        ELSE /\ NameInsideLiteral(CityRows(db)[k])
             /\ age_pc = "done" => Stored(CityRows(db)[k])
             /\ age_pc = "cities" /\ age_k >= k => Stored(CityRows(db)[k])

=============================================================================
